---- MODULE Spec2Model ----
(***************************************************************************)
(* Model of the CFP stream parser (src/cfp_adapter.py, CFPStreamParser),   *)
(* of the SSE stream translator (src/server.py, handle_streaming), of the  *)
(* request pipeline and the unary response of create_message, and of the   *)
(* codec (src/cfp_codec.py).                                               *)
(*                                                                         *)
(* Text is a sequence of one-character tokens.  The characters of the      *)
(* delimiters ("<", "c", "f", "p", "/", ">") are modelled one by one, so   *)
(* that a tag can be cut anywhere; " " is whitespace, "x" is any other     *)
(* character.  A JSON payload is one token (PayloadTokens) that contains   *)
(* neither "<" nor ">"; ParseBlock says what cfp_codec.parse_block makes   *)
(* of it.                                                                  *)
(***************************************************************************)
EXTENDS Integers, Sequences, FiniteSets, TLC

\* ------------------------------------------------------------------ bounds
\* number of pieces the parser's input is made of (ParserSpec)
MaxPieces == 3
\* number of upstream chunks one streaming response consumes (Spec)
MaxChunks == 4
\* number of upstream chunks each of two concurrent responses consumes
\* (ConcurrentSpec)
MaxConcurrentChunks == 2
\* how deep the schemas of the tools are nested (ToolsSpec)
MaxSchemaDepth == 2

\* ------------------------------------------------------------ text helpers
Min(S) == CHOOSE m \in S : \A n \in S : m <= n

\* the element of a one-element set: Only({e(x) : x \in {v}}) is e(v), with v
\* computed once however often e uses it
Only(S) == CHOOSE x \in S : TRUE

Slice(s, a, b) == IF a > b THEN <<>> ELSE SubSeq(s, a, b)

HasAt(s, pat, i) ==
    /\ i >= 1
    /\ i + Len(pat) - 1 <= Len(s)
    /\ \A k \in 1..Len(pat) : s[i + k - 1] = pat[k]

\* str.find(pat, from): the first position >= from where pat occurs, 0 if none
Find(s, pat, from) ==
    Only({IF c = {} THEN 0 ELSE Min(c) :
            c \in {{i \in from..(Len(s) - Len(pat) + 1) : HasAt(s, pat, i)}}})

EndsWith(s, pat) == Len(s) >= Len(pat) /\ HasAt(s, pat, Len(s) - Len(pat) + 1)

Ws == " "

\* str.strip(): whitespace removed at both ends
Strip(s) ==
    Only({IF keep = {} THEN <<>>
          ELSE Slice(s, Min(keep), CHOOSE m \in keep : \A n \in keep : n <= m) :
            keep \in {{i \in 1..Len(s) : s[i] # Ws}}})

RECURSIVE Concat(_)
Concat(ss) == IF ss = <<>> THEN <<>> ELSE Head(ss) \o Concat(Tail(ss))

\* --------------------------------------------------------------- cfp_codec
TAG_OPEN == <<"<", "c", "f", "p", ">">>
TAG_CLOSE == <<"<", "/", "c", "f", "p", ">">>
\* the literal "<cfp" the adapter's patterns start with
CFP_OPEN_PREFIX == <<"<", "c", "f", "p">>

Ids == {"a", "b"}

\* JSON payloads, one token each:
\*   C<id>  {"v":1,"role":"call","id":<id>,"name":"f","args":{}}
\*   D<id>  {"v":1,"role":"args_delta","id":<id>,"delta":"{\"x\":1}"}
\*   K<id>  {"v":1,"role":"args_complete","id":<id>}
\*   R      {"v":1,"role":"result","id":"r","result":{...}}
\*   E      {"v":1,"role":"error","id":"e","err":{"message":...}}
\*   V      {"v":2,"role":"call",...}   a JSON object that is no valid block
\*   J      {not json}                  no JSON at all
\*   Aa     {"v":1,"role":"call","id":"a","name":"f","args":{"x":1}}
\*   Xa     {"v":1,"role":"call","id":"a","name":"f"}
\*   Na     {"v":1,"role":"args_delta","id":"a","delta":"[1]"}
PayloadTokens == {"Ca", "Cb", "Da", "Db", "Ka", "Kb", "R", "E", "V", "J", "Aa", "Xa", "Na",
                  "Ga", "Fb"}

NotADict == [isdict |-> FALSE, v |-> 0, role |-> "", id |-> "", name |-> "",
             args_is_dict |-> FALSE, args |-> <<>>, has_delta |-> FALSE,
             delta |-> <<>>, has_result |-> FALSE, result |-> <<>>]

Doc(role, id) == [NotADict EXCEPT !.isdict = TRUE, !.v = 1, !.role = role, !.id = id]

PayloadDoc(tok) ==
    CASE tok = "Ca" -> [Doc("call", "a") EXCEPT !.name = "f", !.args_is_dict = TRUE]
      [] tok = "Cb" -> [Doc("call", "b") EXCEPT !.name = "g", !.args_is_dict = TRUE]
      [] tok = "Da" -> [Doc("args_delta", "a") EXCEPT !.has_delta = TRUE, !.delta = <<"o">>]
      [] tok = "Db" -> [Doc("args_delta", "b") EXCEPT !.has_delta = TRUE, !.delta = <<"o">>]
      [] tok = "Ka" -> Doc("args_complete", "a")
      [] tok = "Kb" -> Doc("args_complete", "b")
      [] tok = "R"  -> [Doc("result", "r") EXCEPT !.has_result = TRUE, !.result = <<"resultobj">>]
      [] tok = "E"  -> Doc("error", "e")
      [] tok = "V"  -> [Doc("call", "a") EXCEPT !.v = 2, !.name = "f", !.args_is_dict = TRUE]
      [] tok = "Aa" -> [Doc("call", "a") EXCEPT !.name = "f", !.args_is_dict = TRUE,
                                                !.args = <<"o">>]
      [] tok = "Xa" -> [Doc("call", "a") EXCEPT !.name = "f"]
      [] tok = "Na" -> [Doc("args_delta", "a") EXCEPT !.has_delta = TRUE, !.delta = <<"n">>]
      [] tok = "Ga" -> [Doc("call", "a") EXCEPT !.name = "g", !.args_is_dict = TRUE]
      [] tok = "Fb" -> [Doc("call", "b") EXCEPT !.name = "f", !.args_is_dict = TRUE]
      [] OTHER -> NotADict

\* An args_delta payload whose delta is free text is written out: a token for
\* everything up to the delta string, {"v":1,"role":"args_delta","id":<id>,"delta":"
\* the characters of the delta, and a token for the closing quote and brace.
DeltaOpener(id) == IF id = "a" THEN "{Da:" ELSE "{Db:"
DeltaOpeners == {DeltaOpener(id) : id \in Ids}
DeltaCloser == ":}"

\* the delta of a written-out payload: what stands between the opener and
\* the closer, or the end of the text when the closer is missing
WrittenDelta(s) ==
    IF s[Len(s)] = DeltaCloser THEN Slice(s, 2, Len(s) - 1) ELSE Slice(s, 2, Len(s))

\* parse_block: json_repair.loads of the raw content.  Content that is one
\* payload token, whitespace around it ignored, gives that payload's object;
\* a written-out args_delta payload gives its object, also when the text
\* stops inside the delta string (json_repair closes the string and the
\* object); anything else gives a value that is no CFP object.
ParseBlock(raw) ==
    Only({IF Len(s) = 1 /\ s[1] \in PayloadTokens THEN PayloadDoc(s[1])
          ELSE IF s # <<>> /\ s[1] \in DeltaOpeners
          THEN [Doc("args_delta", IF s[1] = DeltaOpener("a") THEN "a" ELSE "b")
                   EXCEPT !.has_delta = TRUE, !.delta = WrittenDelta(s)]
          ELSE NotADict :
            s \in {Strip(raw)}})

\* the payloads encode can produce with one token
EncodableTokens == {"Ca", "Cb", "Da", "Db", "Ka", "Kb", "R", "E", "Ga", "Fb"}

\* json.dumps(doc, separators=(",", ":"), ensure_ascii=False)
JsonDumps(doc) ==
    Only({IF toks # {} THEN <<Only(toks)>>
          ELSE <<DeltaOpener(doc.id)>> \o doc.delta \o <<DeltaCloser>> :
            toks \in {{t \in EncodableTokens : PayloadDoc(t) = doc}}})

\* CFPMarkers.get_marker_for_role: the marker character, one token
MarkerForRole(role) ==
    CASE role = "call" -> "mark:call"
      [] role = "args_delta" -> "mark:args_delta"
      [] role = "args_complete" -> "mark:args_complete"
      [] role = "result" -> "mark:result"
      [] role = "error" -> "mark:error"
      [] OTHER -> "mark:call"

Markers == {MarkerForRole(r) : r \in {"call", "args_delta", "args_complete", "result", "error"}}

\* encode: doc is the dict built from role, call_id and the fields
Encode(doc, use_role_markers) ==
    IF use_role_markers
    THEN CFP_OPEN_PREFIX \o <<MarkerForRole(doc.role), ">">> \o JsonDumps(doc) \o TAG_CLOSE
    ELSE TAG_OPEN \o JsonDumps(doc) \o TAG_CLOSE

\* _cfp_re.findall(txt): <cfp>\s*(.+?)\s*</cfp>, the group of every match from
\* left to right (for content that is not all whitespace: the text up to
\* the first closing tag, without the whitespace around it)
RECURSIVE TraditionalBlocks(_, _)
TraditionalBlocks(txt, from) ==
    Only({IF starts = {} THEN <<>>
          ELSE Only({<<Strip(Slice(txt, i + Len(TAG_OPEN), k - 1))>>
                        \o TraditionalBlocks(txt, k + Len(TAG_CLOSE)) :
                       i \in {Min(starts)},
                       k \in {Find(txt, TAG_CLOSE, Min(starts) + Len(TAG_OPEN) + 1)}}) :
            starts \in {{i \in from..Len(txt) :
                            /\ HasAt(txt, TAG_OPEN, i)
                            /\ Find(txt, TAG_CLOSE, i + Len(TAG_OPEN) + 1) # 0}}})

\* an opening tag with a marker, <cfp then one marker then >, ends at i + 5
HasMarkerTagAt(txt, i) ==
    /\ HasAt(txt, CFP_OPEN_PREFIX, i)
    /\ i + Len(CFP_OPEN_PREFIX) + 1 <= Len(txt)
    /\ txt[i + Len(CFP_OPEN_PREFIX)] \in Markers
    /\ txt[i + Len(CFP_OPEN_PREFIX) + 1] = ">"

\* _cfp_marker_re.finditer(txt): <cfp([markers])>(.*?)</cfp>, group 2
RECURSIVE MarkerBlocks(_, _)
MarkerBlocks(txt, from) ==
    Only({IF starts = {} THEN <<>>
          ELSE Only({<<Slice(txt, i + Len(CFP_OPEN_PREFIX) + 2, k - 1)>>
                        \o MarkerBlocks(txt, k + Len(TAG_CLOSE)) :
                       i \in {Min(starts)},
                       k \in {Find(txt, TAG_CLOSE, Min(starts) + Len(CFP_OPEN_PREFIX) + 2)}}) :
            starts \in {{i \in from..Len(txt) :
                            /\ HasMarkerTagAt(txt, i)
                            /\ Find(txt, TAG_CLOSE, i + Len(CFP_OPEN_PREFIX) + 2) # 0}}})

\* extract_blocks: the traditional blocks, then the blocks with a marker
ExtractBlocks(txt) == TraditionalBlocks(txt, 1) \o MarkerBlocks(txt, 1)

\* json.loads(content) succeeds (strict JSON, surrounding whitespace allowed)
JsonLoadsOk(content) ==
    \E s \in {Strip(content)} : Len(s) = 1 /\ s[1] \in PayloadTokens \ {"J"}

\* Argument strings are sequences of the tokens
\*   "o"  {"x":1}      "O"  {"x": 1}  (json.dumps of the same object)
\*   "e"  {}           "n"  [1]       (a JSON value that is no object)
\* and of an object whose string value is the closing tag, {"t":"</cfp>"}:
\*   "{t:" for {"t":" and ":t}" for "}, the characters of the tag between;
\*   "{t: " for {"t": " in what json.dumps writes.
\* json.loads accepts exactly the strings that are one JSON value.
ArgsWithClosingTag == <<"{t:">> \o TAG_CLOSE \o <<":t}">>
ArgsWithClosingTagDumped == <<"{t: ">> \o TAG_CLOSE \o <<":t}">>
ArgsJsonValid(s) ==
    s \in {<<"o">>, <<"O">>, <<"e">>, <<"n">>, ArgsWithClosingTag, ArgsWithClosingTagDumped}

\* json.dumps(json.loads(s)) for a valid s: the default separators add a blank
ArgsReserialize(s) ==
    IF s \in {<<"e">>, <<"n">>} THEN s
    ELSE IF s \in {ArgsWithClosingTag, ArgsWithClosingTagDumped} THEN ArgsWithClosingTagDumped
    ELSE <<"O">>

\* ---------------------------------------------------------- CFPStreamParser
NoEvent == [type |-> "none", id |-> "", name |-> "", data |-> <<>>]
TextEvent(content) == [type |-> "text", id |-> "", name |-> "", data |-> content]

NewParser == [buffer |-> <<>>, active_calls |-> <<>>, completed_calls |-> <<>>]

\* active_calls is a dict call_id -> call_info: a function on the ids present
HasCall(p, id) == id \in DOMAIN p.active_calls

\* a parser built with strict_validation off: every complete run is a block
ValidateCfpContentLax(content) == ParseBlock(content).isdict

\* _validate_cfp_content with strict_validation on (the default every caller uses)
ValidateCfpContent(content) ==
    \E data \in {ParseBlock(content)} :
        /\ data.isdict
        /\ data.v = 1
        /\ data.role \in {"call", "result", "error", "args_delta", "args_complete"}
        /\ data.id # ""
        /\ (data.role = "call" => data.name # "" /\ data.args_is_dict)
        /\ (data.role = "result" => data.has_result)
        /\ (data.role = "args_delta" => data.has_delta)

\* one match of <cfp([^>]*)>(.*?)</cfp> at or after cur: the leftmost "<cfp"
\* whose tag closes at the first ">" and is followed by a "</cfp>"; the content
\* ends at the first "</cfp>"
TagEnd(text, i) == Find(text, <<">">>, i + Len(CFP_OPEN_PREFIX))

CloseAt(text, i) ==
    Only({IF gt = 0 THEN 0 ELSE Find(text, TAG_CLOSE, gt + 1) : gt \in {TagEnd(text, i)}})

NextMatch(text, cur) ==
    Only({IF starts = {}
          THEN [found |-> FALSE, start |-> 0, inner |-> 0, close |-> 0, end |-> 0]
          ELSE Only({[found |-> TRUE, start |-> i, inner |-> TagEnd(text, i) + 1,
                      close |-> k, end |-> k + Len(TAG_CLOSE)] :
                        i \in {Min(starts)}, k \in {CloseAt(text, Min(starts))}}) :
            starts \in {{i \in cur..Len(text) :
                            HasAt(text, CFP_OPEN_PREFIX, i) /\ CloseAt(text, i) # 0}}})

Part(ptype, content) == [ptype |-> ptype, content |-> content]

\* the loop over pattern.finditer(text), from current_pos on
RECURSIVE ExtractFrom(_, _)
ExtractFrom(text, current_pos) ==
    Only({IF ~m.found
          THEN [parts |-> <<>>,
                remaining |-> IF current_pos <= Len(text)
                              THEN Slice(text, current_pos, Len(text)) ELSE <<>>]
          ELSE Only({[parts |->
                         (IF m.start > current_pos
                          THEN <<Part("text", Slice(text, current_pos, m.start - 1))>>
                          ELSE <<>>)
                         \o <<IF ValidateCfpContent(Slice(text, m.inner, m.close - 1))
                               THEN Part("cfp", Slice(text, m.inner, m.close - 1))
                               ELSE Part("text", Slice(text, m.start, m.end - 1))>>
                         \o rest.parts,
                      remaining |-> rest.remaining] :
                        rest \in {ExtractFrom(text, m.end)}}) :
            m \in {NextMatch(text, current_pos)}})

ExtractCompleteCfpBlocks(text) == ExtractFrom(text, 1)

\* a parser that does not look the id up before it reports an args_delta
ProcessCfpBlockNoLookup(p, cfp_data) ==
    IF cfp_data.role = "args_delta"
    THEN [parser |-> p,
          event |-> [type |-> "args_delta", id |-> cfp_data.id, name |-> "",
                     data |-> cfp_data.delta]]
    ELSE [parser |-> p, event |-> NoEvent]

\* _process_cfp_block: the event (NoEvent for None) and the parser afterwards
ProcessCfpBlock(p, cfp_data) ==
    CASE cfp_data.role = "call" ->
           [parser |-> [p EXCEPT !.active_calls =
                           [i \in DOMAIN p.active_calls \cup {cfp_data.id} |->
                               IF i = cfp_data.id
                               THEN [id |-> cfp_data.id, name |-> cfp_data.name,
                                     args |-> <<>>, complete |-> FALSE]
                               ELSE p.active_calls[i]]],
            event |-> [type |-> "call_start", id |-> cfp_data.id,
                       name |-> cfp_data.name, data |-> <<>>]]
      [] cfp_data.role = "args_delta" /\ HasCall(p, cfp_data.id) ->
           [parser |-> [p EXCEPT !.active_calls[cfp_data.id].args = @ \o cfp_data.delta],
            event |-> [type |-> "args_delta", id |-> cfp_data.id, name |-> "",
                       data |-> cfp_data.delta]]
      [] cfp_data.role = "args_complete" /\ HasCall(p, cfp_data.id) ->
           Only({[parser |-> [p EXCEPT !.active_calls[cfp_data.id] = call_info,
                                       !.completed_calls = Append(@, call_info)],
                  event |-> [type |-> "call_complete", id |-> cfp_data.id, name |-> "",
                             data |-> call_info.args]] :
                    call_info \in
                      {[p.active_calls[cfp_data.id] EXCEPT
                          !.args = IF @ # <<>> /\ ArgsJsonValid(@)
                                   THEN ArgsReserialize(@) ELSE <<"e">>,
                          !.complete = TRUE]}})
      [] cfp_data.role = "result" ->
           [parser |-> p,
            event |-> [type |-> "result", id |-> "", name |-> "",
                       data |-> cfp_data.result]]
      [] OTHER -> [parser |-> p, event |-> NoEvent]

\* one part of the list _extract_complete_cfp_blocks returned
ProcessPart(p, part) ==
    IF part.ptype = "text"
    THEN [parser |-> p,
          event |-> IF part.content # <<>> THEN TextEvent(part.content) ELSE NoEvent]
    ELSE Only({ProcessCfpBlock(p, d) : d \in {ParseBlock(part.content)}})

\* the loop over the parts, shared by parse_stream_chunk and finalize_stream
RECURSIVE ProcessParts(_, _)
ProcessParts(p, parts) ==
    IF parts = <<>> THEN [parser |-> p, events |-> <<>>]
    ELSE Only({Only({[parser |-> rest.parser,
                      events |-> (IF one.event.type = "none" THEN <<>> ELSE <<one.event>>)
                                 \o rest.events] :
                        rest \in {ProcessParts(one.parser, Tail(parts))}}) :
                 one \in {ProcessPart(p, Head(parts))}})

\* a parser that hands text out as soon as the buffer holds no "<cfp"
ParseStreamChunkEager(p, fragment) ==
    Only({Only({[parser |-> [done.parser EXCEPT
                                !.buffer = IF eager THEN <<>> ELSE ex.remaining],
                 events |-> done.events
                            \o (IF eager THEN <<TextEvent(ex.remaining)>> ELSE <<>>)] :
                   done \in {ProcessParts(p, ex.parts)},
                   eager \in {ex.remaining # <<>>
                                 /\ Find(ex.remaining, CFP_OPEN_PREFIX, 1) = 0}}) :
            ex \in {ExtractCompleteCfpBlocks(p.buffer \o fragment)}})

ParseStreamChunk(p, fragment) ==
    Only({Only({[parser |-> [done.parser EXCEPT !.buffer = ex.remaining],
                 events |-> done.events] :
                   done \in {ProcessParts(p, ex.parts)}}) :
            ex \in {ExtractCompleteCfpBlocks(p.buffer \o fragment)}})

\* re.search(r'<cfp[^>]*>([^<]*)$', buffer): the content after an opening tag
\* that runs to the end of the buffer without another "<"; <<>> when the
\* pattern is not found, else the one-element sequence holding the content
LastOpenContent(buf) ==
    Only({IF starts = {} THEN <<>>
          ELSE <<Slice(buf, TagEnd(buf, Min(starts)) + 1, Len(buf))>> :
            starts \in {{i \in 1..Len(buf) :
                            /\ HasAt(buf, CFP_OPEN_PREFIX, i)
                            /\ TagEnd(buf, i) # 0
                            /\ \A k \in (TagEnd(buf, i) + 1)..Len(buf) : buf[k] # "<"}}})

\* the buffer finalize_stream parses: stripped, and closed with "</cfp>" when
\* it ends in an opening tag followed by complete JSON
RepairedBuffer(buf) ==
    Only({IF /\ stripped # <<>>
             /\ ~EndsWith(stripped, TAG_CLOSE)
             /\ \E c \in {LastOpenContent(stripped)} : c # <<>> /\ JsonLoadsOk(c[1])
          THEN stripped \o TAG_CLOSE ELSE stripped :
            stripped \in {Strip(buf)}})

FinalizeStream(p) ==
    IF p.buffer = <<>> THEN [parser |-> p, events |-> <<>>]
    ELSE Only({Only({[parser |-> [done.parser EXCEPT !.buffer = <<>>],
                      events |-> done.events
                                 \o (IF ex.remaining # <<>>
                                     THEN <<TextEvent(ex.remaining)>> ELSE <<>>)] :
                        done \in {ProcessParts(p, ex.parts)}}) :
                 ex \in {ExtractCompleteCfpBlocks(RepairedBuffer(p.buffer))}})

\* ------------------------------------------- cfp_adapter.parse_cfp_response
\* cfp_codec.has_cfp_blocks: <cfp>\s*(.+?)\s*</cfp> finds an opening tag, at
\* least one character and a closing tag.  (The second pattern, for tags that
\* carry a marker character, matches no text made of the characters modelled.)
HasCfpBlocks(txt) ==
    \E i \in 1..Len(txt) :
        HasAt(txt, TAG_OPEN, i) /\ Find(txt, TAG_CLOSE, i + Len(TAG_OPEN) + 1) # 0

\* json.dumps(event["result"], ensure_ascii=False) of the result object
JsonDumpsResult(result) == <<"resultjson">>

\* a parse_cfp_response that looks for text before it looks for a result
PlainOfEventsTextFirst(text, evs, completed) ==
    IF completed # <<>> THEN [is_none |-> TRUE, text |-> <<>>]
    ELSE IF \E i \in 1..Len(evs) : evs[i].type = "text"
         THEN [is_none |-> FALSE,
               text |-> Only({Concat([i \in 1..Len(parts) |-> parts[i].data]) :
                                parts \in {SelectSeq(evs, LAMBDA e : e.type = "text")}})]
    ELSE IF \E i \in 1..Len(evs) : evs[i].type = "result"
         THEN [is_none |-> FALSE,
               text |-> JsonDumpsResult(
                            evs[Min({i \in 1..Len(evs) : evs[i].type = "result"})].data)]
    ELSE [is_none |-> FALSE, text |-> Strip(text)]

\* what parse_cfp_response makes of the events and the completed calls
PlainOfEvents(text, evs, completed) ==
    IF completed # <<>> THEN [is_none |-> TRUE, text |-> <<>>]
    ELSE IF \E i \in 1..Len(evs) : evs[i].type = "result"
         THEN [is_none |-> FALSE,
               text |-> JsonDumpsResult(
                            evs[Min({i \in 1..Len(evs) : evs[i].type = "result"})].data)]
    ELSE IF \E i \in 1..Len(evs) : evs[i].type = "text"
         THEN [is_none |-> FALSE,
               text |-> Only({Concat([i \in 1..Len(parts) |-> parts[i].data]) :
                                parts \in {SelectSeq(evs, LAMBDA e : e.type = "text")}})]
    ELSE [is_none |-> FALSE, text |-> Strip(text)]

\* the plain text parse_cfp_response returns; is_none when it returns None
\* (tool calls were completed)
ParseCfpResponse(text) ==
    IF ~HasCfpBlocks(text) THEN [is_none |-> FALSE, text |-> Strip(text)]
    ELSE Only({Only({PlainOfEvents(text, fed.events \o fin.events,
                                   fin.parser.completed_calls) :
                        fin \in {FinalizeStream(fed.parser)}}) :
                 fed \in {ParseStreamChunk(NewParser, text)}})

\* ------------------------------------------------- server.handle_streaming
\* One SSE item.  index is -1 where the event carries none; kind is the type
\* of the block or of the delta, or the stop_reason of message_delta.
Sse(type, index, kind, id, name, data, tokens) ==
    [type |-> type, index |-> index, kind |-> kind, id |-> id, name |-> name,
     data |-> data, tokens |-> tokens]

MessageStart == Sse("message_start", -1, "", "", "", <<>>, 0)
TextBlockStart == Sse("content_block_start", 0, "text", "", "", <<>>, 0)
ToolBlockStart(index, id, name) == Sse("content_block_start", index, "tool_use", id, name, <<>>, 0)
TextDelta(text) == Sse("content_block_delta", 0, "text_delta", "", "", text, 0)
InputJsonDelta(index, partial_json) ==
    Sse("content_block_delta", index, "input_json_delta", "", "", partial_json, 0)
BlockStop(index) == Sse("content_block_stop", index, "", "", "", <<>>, 0)
MessageDelta(stop_reason, output_tokens) ==
    Sse("message_delta", -1, stop_reason, "", "", <<>>, output_tokens)
MessageStop == Sse("message_stop", -1, "", "", "", <<>>, 0)
DoneSentinel == Sse("[DONE]", -1, "", "", "", <<>>, 0)

\* The operators below take the locals of handle_streaming as a record st0
\* and give the locals afterwards; what was yielded is appended to out.
Yield(st0, ev) == [st0 EXCEPT !.out = Append(@, ev)]

\* the position of a key in a dict kept in insertion order, 0 if absent
KeyPos(d, key, field) ==
    Only({IF c = {} THEN 0 ELSE Min(c) : c \in {{i \in 1..Len(d) : d[i][field] = key}}})

RemoveAt(s, i) == Slice(s, 1, i - 1) \o Slice(s, i + 1, Len(s))

TextOffset(st) == IF st.text_block_started THEN 1 ELSE 0

\* "if text_block_started and not text_block_closed": close the text block
CloseTextIfOpen(st0) ==
    Only({IF st.text_block_started /\ ~st.text_block_closed
          THEN Yield([st EXCEPT !.text_block_closed = TRUE], BlockStop(0))
          ELSE st : st \in {st0}})

\* "if not text_block_started": open the text block at index 0
OpenTextIfNotStarted(st0) ==
    Only({IF ~st.text_block_started
          THEN Yield([st EXCEPT !.text_block_started = TRUE], TextBlockStart)
          ELSE st : st \in {st0}})

SendText(st0, text) ==
    [Yield(OpenTextIfNotStarted(st0), TextDelta(text)) EXCEPT !.text_sent = TRUE]

\* the id the block gets: the upstream's, or a generated one
ToolId(tool_call) == IF tool_call.id # "" THEN tool_call.id ELSE "toolu"

\* "if tool_index not in tool_calls_in_progress" and the update of the entry
RegisterToolCall(st0, tool_call) ==
    Only({Only({[known EXCEPT
                    !.tool_calls_in_progress[k].name =
                        IF tool_call.name # "" /\ @ = "" THEN tool_call.name ELSE @,
                    !.tool_calls_in_progress[k].arguments = @ \o tool_call.arguments] :
                  k \in {KeyPos(known.tool_calls_in_progress, tool_call.index, "index")}}) :
            known \in {IF KeyPos(st0.tool_calls_in_progress, tool_call.index, "index") # 0
                       THEN st0
                       ELSE [st0 EXCEPT !.tool_calls_in_progress =
                                Append(@, [index |-> tool_call.index,
                                           id |-> ToolId(tool_call),
                                           name |-> tool_call.name, arguments |-> <<>>,
                                           started |-> FALSE])]}})

\* a translator that opens the tool block and leaves the text block open
StartToolBlockNoClose(st0, tool_call) ==
    Only({IF st.tool_calls_in_progress[k].started THEN st
          ELSE Yield([st EXCEPT !.tool_calls_in_progress[k].started = TRUE],
                     ToolBlockStart(tool_call.index + TextOffset(st), ToolId(tool_call),
                                    tool_call.name)) :
            st \in {st0},
            k \in {KeyPos(st0.tool_calls_in_progress, tool_call.index, "index")}})

\* "if not tool_call_state['started']": close the text block, open the tool block
StartToolBlock(st0, tool_call) ==
    Only({IF st.tool_calls_in_progress[k].started THEN st
          ELSE Only({Yield(c, ToolBlockStart(tool_call.index + TextOffset(c),
                                             ToolId(tool_call), tool_call.name)) :
                       c \in {CloseTextIfOpen(
                                 [st EXCEPT !.tool_calls_in_progress[k].started = TRUE])}}) :
            st \in {st0},
            k \in {KeyPos(st0.tool_calls_in_progress, tool_call.index, "index")}})

\* "if function_arguments": the fragment goes out as input_json_delta
ToolArgumentsDelta(st0, tool_call) ==
    Only({IF tool_call.arguments # <<>>
          THEN Yield(st, InputJsonDelta(tool_call.index + TextOffset(st),
                                        tool_call.arguments))
          ELSE st : st \in {st0}})

\* one tool_call of delta.tool_calls (the body of the for loop)
NativeToolCall(st0, tool_call) ==
    Only({IF ~(tool_call.type = "function" /\ tool_call.has_function) THEN st
          ELSE ToolArgumentsDelta(
                   StartToolBlock(RegisterToolCall(st, tool_call), tool_call), tool_call) :
            st \in {[st0 EXCEPT !.tool_index = tool_call.index]}})

RECURSIVE NativeToolCalls(_, _)
NativeToolCalls(st0, tool_calls) ==
    IF tool_calls = <<>> THEN st0
    ELSE Only({NativeToolCalls(st, Tail(tool_calls)) :
                 st \in {NativeToolCall(st0, Head(tool_calls))}})

\* a translator that numbers the CFP blocks without looking at the text block
CfpCallStartNoOffset(st0, event) ==
    Only({Only({[Yield([c EXCEPT !.cfp_active_calls =
                           IF k = 0 THEN Append(@, info) ELSE [@ EXCEPT ![k] = info]],
                       ToolBlockStart(info.index, info.anthropic_id, event.name))
                    EXCEPT !.cfp_call_index = @ + 1] :
                  k \in {KeyPos(c.cfp_active_calls, event.id, "call_id")},
                  info \in {[call_id |-> event.id,
                             index |-> c.cfp_call_index,
                             anthropic_id |-> "toolu", name |-> event.name]}}) :
            c \in {CloseTextIfOpen([st0 EXCEPT !.cfp_has_tool_calls = TRUE])}})

\* event call_start: close the text block, open the next tool block
CfpCallStart(st0, event) ==
    Only({Only({[Yield([c EXCEPT !.cfp_active_calls =
                           IF k = 0 THEN Append(@, info) ELSE [@ EXCEPT ![k] = info]],
                       ToolBlockStart(info.index, info.anthropic_id, event.name))
                    EXCEPT !.cfp_call_index = @ + 1] :
                  k \in {KeyPos(c.cfp_active_calls, event.id, "call_id")},
                  info \in {[call_id |-> event.id,
                             index |-> c.cfp_call_index + TextOffset(c),
                             anthropic_id |-> "toolu", name |-> event.name]}}) :
            c \in {CloseTextIfOpen([st0 EXCEPT !.cfp_has_tool_calls = TRUE])}})

\* event args_delta
CfpArgsDelta(st0, event) ==
    Only({IF k = 0 THEN st
          ELSE Yield(st, InputJsonDelta(st.cfp_active_calls[k].index, event.data)) :
            st \in {st0}, k \in {KeyPos(st0.cfp_active_calls, event.id, "call_id")}})

\* event call_complete
CfpCallComplete(st0, event) ==
    Only({IF k = 0 THEN st
          ELSE [Yield(st, BlockStop(st.cfp_active_calls[k].index))
                   EXCEPT !.cfp_active_calls = RemoveAt(@, k)] :
            st \in {st0}, k \in {KeyPos(st0.cfp_active_calls, event.id, "call_id")}})

\* event text
CfpText(st0, event) ==
    Only({IF event.data # <<>> /\ ~st.cfp_has_tool_calls
          THEN SendText(st, event.data) ELSE st : st \in {st0}})

\* event result
CfpResult(st0, event) == SendText(st0, JsonDumpsResult(event.data))

\* one event of the CFP parser (the body of "for event in events")
CfpEvent(st0, event) ==
    CASE event.type = "call_start" -> CfpCallStart(st0, event)
      [] event.type = "args_delta" -> CfpArgsDelta(st0, event)
      [] event.type = "call_complete" -> CfpCallComplete(st0, event)
      [] event.type = "text" -> CfpText(st0, event)
      [] event.type = "result" -> CfpResult(st0, event)
      [] OTHER -> st0

RECURSIVE CfpEvents(_, _)
CfpEvents(st0, evs) ==
    IF evs = <<>> THEN st0
    ELSE Only({CfpEvents(st, Tail(evs)) : st \in {CfpEvent(st0, Head(evs))}})

\* "elif cfp_used and delta_content": the fragment goes through the parser
CfpContent(st0, delta_content) ==
    Only({CfpEvents([st0 EXCEPT !.accumulated_text = @ \o delta_content,
                                !.parser = parsed.parser], parsed.events) :
            parsed \in {ParseStreamChunk(st0.parser, delta_content)}})

\* "elif not cfp_used and delta_content and not tool_calls"
PlainContent(st0, delta_content) ==
    Only({IF st.tool_index = -1 /\ ~st.text_block_closed
          THEN SendText(st, delta_content)
          ELSE st : st \in {[st0 EXCEPT !.accumulated_text = @ \o delta_content]}})

StopReason(st) ==
    IF st.finish_reason = "length" THEN "max_tokens"
    ELSE IF \/ st.finish_reason = "tool_calls"
            \/ st.cfp_has_tool_calls
            \/ st.tool_calls_in_progress # <<>>
         THEN "tool_use"
    ELSE "end_turn"

\* message_delta, message_stop, "data: [DONE]", return
Terminator(st0, stop_reason, output_tokens) ==
    [Yield(Yield(Yield(st0, MessageDelta(stop_reason, output_tokens)), MessageStop),
           DoneSentinel) EXCEPT !.pc = "done"]

\* "for tool_idx, tool_call_state in tool_calls_in_progress.items()"
RECURSIVE StopNativeToolsFrom(_, _)
StopNativeToolsFrom(st0, k) ==
    IF k > Len(st0.tool_calls_in_progress) THEN st0
    ELSE Only({StopNativeToolsFrom(st, k + 1) :
                 st \in {IF st0.tool_calls_in_progress[k].started
                         THEN Yield(st0, BlockStop(st0.tool_calls_in_progress[k].index
                                                   + TextOffset(st0)))
                         ELSE st0}})

StopNativeTools(st0) == Only({StopNativeToolsFrom(st, 1) : st \in {st0}})

\* "for call_id, call_info in cfp_active_calls.items()"
RECURSIVE StopCfpCallsFrom(_, _)
StopCfpCallsFrom(st0, k) ==
    IF k > Len(st0.cfp_active_calls) THEN st0
    ELSE Only({StopCfpCallsFrom(st, k + 1) :
                 st \in {Yield(st0, BlockStop(st0.cfp_active_calls[k].index))}})

StopCfpCalls(st0) == Only({StopCfpCallsFrom(st, 1) : st \in {st0}})

\* CFP mode without tool calls: the accumulated text goes out at the end
FlushCfpText(st0) ==
    Only({IF st.cfp_used /\ ~st.cfp_has_tool_calls /\ Strip(st.accumulated_text) # <<>>
          THEN Only({IF ~plain.is_none /\ Strip(plain.text) # <<>>
                     THEN SendText(st, plain.text) ELSE st :
                       plain \in {ParseCfpResponse(st.accumulated_text)}})
          ELSE st : st \in {st0}})

\* "if text_sent and not text_block_closed"
CloseTextAtEnd(st0) ==
    Only({IF st.text_sent /\ ~st.text_block_closed
          THEN Yield([st EXCEPT !.text_block_closed = TRUE], BlockStop(0))
          ELSE st : st \in {st0}})

\* "if finish_reason and not has_sent_stop_reason": close and terminate
FinishPath(st0) ==
    Only({Terminator(st, StopReason(st), st.output_tokens) :
            st \in {CloseTextAtEnd(FlushCfpText(StopCfpCalls(StopNativeTools(
                        [st0 EXCEPT !.has_sent_stop_reason = TRUE]))))}})

\* a translator that leaves the sentinel out when the upstream just ends
InterruptPathNoSentinel(st0) ==
    Only({[Yield(Yield(st, MessageDelta(StopReason(st), st.output_tokens)), MessageStop)
              EXCEPT !.pc = "done"] : st \in {st0}})

\* "if sse_interrupt": the upstream iterator ended and nothing was finished
InterruptPath(st0) ==
    Only({Terminator(st, StopReason(st), st.output_tokens) : st \in {st0}})

\* a translator that ends a failed stream like an interrupted one
ErrorPathAsInterrupt(st0) == Terminator(st0, StopReason(st0), st0.output_tokens)

\* the outer "except Exception"
ErrorPath(st0) == Terminator(st0, "error", 0)

\* the branch of the loop body the chunk's delta selects
DeltaBranch(st0, chunk) ==
    IF chunk.tool_calls # <<>> /\ ~st0.cfp_used
    THEN [NativeToolCalls(st0, chunk.tool_calls) EXCEPT !.finish_reason = "tool_use"]
    ELSE IF st0.cfp_used /\ chunk.content # <<>>
    THEN CfpContent(st0, chunk.content)
    ELSE IF ~st0.cfp_used /\ chunk.content # <<>> /\ chunk.tool_calls = <<>>
    THEN PlainContent(st0, chunk.content)
    ELSE st0

\* the body of "async for chunk in response_generator"
ProcessChunk(st0, chunk) ==
    Only({IF ~chunk.has_choices THEN usage
          ELSE Only({IF st.finish_reason # "None" /\ ~st.has_sent_stop_reason
                     THEN FinishPath(st)
                     ELSE st :
                       st \in {DeltaBranch([usage EXCEPT
                                              !.finish_reason = chunk.finish_reason],
                                           chunk)}}) :
            usage \in {IF chunk.usage >= 0
                       THEN [st0 EXCEPT !.output_tokens = chunk.usage] ELSE st0}})

\* ----------------------------------------------------- server: model routing
\* A model string is a sequence of tokens: a provider prefix ("openai/",
\* "gemini/", "anthropic/"), an alias keyword ("haiku", "Haiku", "sonnet"),
\* the pieces of the CFP suffixes ("-cfp", "-text", "only": "-textonly" is
\* "-text" followed by "only"), ":" and channel names ("chan", "CHAN",
\* "nochan"), and other text ("m", "big", "small").
ProviderPrefixes == {"openai/", "gemini/", "anthropic/"}

\* str.lower() of one token
Lower(tok) ==
    CASE tok = "Haiku" -> "haiku"
      [] tok = "CHAN" -> "chan"
      [] OTHER -> tok

LowerAll(s) == [i \in 1..Len(s) |-> Lower(s[i])]

\* s.startswith(('openai/', 'gemini/', 'anthropic/'))
HasProviderPrefix(s) == s # <<>> /\ Head(s) \in ProviderPrefixes

\* "pat in s" for strings
HasSub(s, pat) == Find(s, pat, 1) # 0

\* s.replace(pat, ''): every occurrence taken out, left to right
RECURSIVE Replace(_, _)
Replace(s, pat) ==
    Only({IF i = 0 THEN s
          ELSE Slice(s, 1, i - 1) \o Replace(Slice(s, i + Len(pat), Len(s)), pat) :
            i \in {Find(s, pat, 1)}})

\* the list ['-textonly', '-cfp', '-text'], in the order the code goes through it
CfpSuffixes == <<(<<"-text", "only">>), (<<"-cfp">>), (<<"-text">>)>>

\* "any(suffix in new_model for suffix in [...])"
HasCfpSuffix(s) == \E k \in 1..Len(CfpSuffixes) : HasSub(s, CfpSuffixes[k])

\* the loop "new_model = new_model.replace(suffix, '')"
RemoveCfpSuffixes(s) ==
    Replace(Replace(Replace(s, CfpSuffixes[1]), CfpSuffixes[2]), CfpSuffixes[3])

\* the prefix PREFERRED_PROVIDER selects
PreferredPrefix(env) ==
    IF env.PREFERRED_PROVIDER \in {"google", "gemini"} THEN "gemini/"
    ELSE IF env.PREFERRED_PROVIDER = "anthropic" THEN "anthropic/"
    ELSE "openai/"

\* SMALL_MODEL or BIG_MODEL as the new model: as it is when it has a provider
\* prefix, behind the preferred provider's prefix when it has none
AliasTarget(target, env) ==
    IF HasProviderPrefix(target) THEN target ELSE <<PreferredPrefix(env)>> \o target

\* the mapping of validate_model_field, before the CFP flags are looked at
MapModel(v, env) ==
    Only({IF HasSub(LowerAll(clean_v), <<"haiku">>) THEN AliasTarget(env.SMALL_MODEL, env)
          ELSE IF HasSub(LowerAll(clean_v), <<"sonnet">>) THEN AliasTarget(env.BIG_MODEL, env)
          ELSE IF ~HasProviderPrefix(v) THEN <<PreferredPrefix(env)>> \o clean_v
          ELSE v :
            clean_v \in {IF HasProviderPrefix(v) THEN Tail(v) ELSE v}})

\* a validator that leaves the CFP flags in the model name
ValidateModelFieldKeepFlags(v, env) ==
    Only({[model |-> new_model, cfp_enabled |-> HasCfpSuffix(new_model)] :
            new_model \in {MapModel(v, env)}})

\* validate_model_field: the model the request carries afterwards and the
\* cfp_enabled value the validator computes
ValidateModelField(v, env) ==
    Only({[model |-> IF HasCfpSuffix(new_model) THEN RemoveCfpSuffixes(new_model)
                     ELSE new_model,
           cfp_enabled |-> HasCfpSuffix(new_model)] :
            new_model \in {MapModel(v, env)}})

\* ProviderConfig.parse_model_and_channel: the model part and the name of the
\* provider config; providers is the set of channel names configured, each a
\* lowercase string, "default" among them
ParseModelAndChannel(model_name, providers) ==
    Only({IF i = 0 THEN [model |-> model_name, provider |-> "default"]
          ELSE Only({[model |-> Slice(model_name, 1, i - 1),
                      provider |-> IF Len(channel_name) = 1 /\ channel_name[1] \in providers
                                   THEN channel_name[1] ELSE "default"] :
                       channel_name \in {LowerAll(Slice(model_name, i + 1, Len(model_name)))}}) :
            i \in {Find(model_name, <<":">>, 1)}})

\* ------------------------------------------- server: request translation
\* Message text is a sequence of tokens: "x" for visible text, Ws for a blank
\* or a line break, and one token for each fixed label the code writes:
\*   "T"    "Tool Result:", "[Tool Result ID: ...]", "Tool result for ...:"
\*   "U"    "[Tool: name (ID: id)]\nInput: {...}"
\*   "I"    "[Image content - not displayed in text format]"
\*   "..."  the placeholder for empty content
\* The content of a message is a string, a list of blocks, or None; a block
\* has a type and a text (for tool_result: its content, a string).
Str(text) == [kind |-> "str", text |-> text, blocks |-> <<>>]
Blocks(blocks) == [kind |-> "list", text |-> <<>>, blocks |-> blocks]
NoneContent == [kind |-> "none", text |-> <<>>, blocks |-> <<>>]
ContentBlock(type, text) == [type |-> type, text |-> text]
Msg(role, content) == [role |-> role, content |-> content]
Placeholder == <<"...">>

\* convert_anthropic_to_litellm, a user message with a tool_result block: the
\* text the blocks are flattened to, before the strip
RECURSIVE ToolResultUserText(_)
ToolResultUserText(blocks) ==
    IF blocks = <<>> THEN <<>>
    ELSE (CASE Head(blocks).type = "text" -> Head(blocks).text \o <<Ws>>
            [] Head(blocks).type = "tool_result" -> <<"T", Ws>> \o Head(blocks).text \o <<Ws>>
            [] OTHER -> <<>>)
         \o ToolResultUserText(Tail(blocks))

\* convert_anthropic_to_litellm: one message of the conversation
ConvertMessage(msg) ==
    IF msg.content.kind = "str" THEN msg
    ELSE IF /\ msg.role = "user"
            /\ \E i \in 1..Len(msg.content.blocks) : msg.content.blocks[i].type = "tool_result"
    THEN Msg("user", Str(Strip(ToolResultUserText(msg.content.blocks))))
    ELSE msg

\* the messages of the litellm request: the system message, when the request
\* has a system text, and the converted messages
ConvertMessages(system, messages) ==
    (IF system # <<>> THEN <<Msg("system", Str(system))>> ELSE <<>>)
        \o [i \in 1..Len(messages) |-> ConvertMessage(messages[i])]

\* create_message, a list of tool_result blocks only: "Tool Result:" and the
\* text of each block
RECURSIVE OnlyToolResultText(_)
OnlyToolResultText(blocks) ==
    IF blocks = <<>> THEN <<>>
    ELSE <<"T", Ws>> \o Head(blocks).text \o <<Ws>> \o OnlyToolResultText(Tail(blocks))

\* create_message, any other list: the text each block is turned into
RECURSIVE BlockListText(_)
BlockListText(blocks) ==
    IF blocks = <<>> THEN <<>>
    ELSE (CASE Head(blocks).type = "text" -> Head(blocks).text \o <<Ws>>
            [] Head(blocks).type = "tool_result" -> <<"T", Ws>> \o Head(blocks).text \o <<Ws>>
            [] Head(blocks).type = "tool_use" -> <<"U", Ws, Ws>>
            [] Head(blocks).type = "image" -> <<"I", Ws>>
            [] OTHER -> <<>>)
         \o BlockListText(Tail(blocks))

\* create_message, "For OpenAI models": the content of one message afterwards
OpenAiContent(content) ==
    IF content.kind = "list"
    THEN IF /\ content.blocks # <<>>
            /\ \A i \in 1..Len(content.blocks) : content.blocks[i].type = "tool_result"
         THEN Only({Str(IF t = <<>> THEN Placeholder ELSE t) :
                      t \in {Strip(OnlyToolResultText(content.blocks))}})
         ELSE Only({Str(IF Strip(t) = <<>> THEN Placeholder ELSE Strip(t)) :
                      t \in {BlockListText(content.blocks)}})
    ELSE IF content.kind = "none" THEN Str(Placeholder)
    ELSE content

\* "if 'openai' in litellm_request['model']": the messages are normalized
NormalizeForOpenAi(model, messages) ==
    IF \E i \in 1..Len(model) : model[i] = "openai/"
    THEN [i \in 1..Len(messages) |->
             Msg(messages[i].role, OpenAiContent(messages[i].content))]
    ELSE messages

\* A JSON value of a tool schema: a string (numbers and booleans too), a
\* list, or a dict, which is the sequence of its entries in insertion order.
JStr(s) == [t |-> "str", v |-> s]
JList(items) == [t |-> "list", v |-> items]
JDict(entries) == [t |-> "dict", v |-> entries]
Entry(k, v) == [k |-> k, v |-> v]

\* "key in d" and d[key] for the entries of a dict
HasKey(entries, key) == \E i \in 1..Len(entries) : entries[i].k = key
GetKey(entries, key) == entries[Min({i \in 1..Len(entries) : entries[i].k = key})].v

\* d.pop(key, None)
PopKey(entries, key) == SelectSeq(entries, LAMBDA e : e.k # key)

\* clean_gemini_schema: in every dict, whatever it is the value of,
\* additionalProperties and default are popped, format is popped when type is
\* "string" and the format is neither enum nor date-time, and every value is
\* cleaned in turn; the items of a list are cleaned
RECURSIVE CleanGeminiSchema(_)
CleanGeminiSchema(schema) ==
    CASE schema.t = "dict" ->
           Only({Only({JDict([i \in 1..Len(kept) |->
                                Entry(kept[i].k, CleanGeminiSchema(kept[i].v))]) :
                         kept \in {IF /\ HasKey(popped, "type")
                                      /\ GetKey(popped, "type") = JStr("string")
                                      /\ HasKey(popped, "format")
                                      /\ GetKey(popped, "format")
                                            \notin {JStr("enum"), JStr("date-time")}
                                   THEN PopKey(popped, "format") ELSE popped}}) :
                   popped \in {PopKey(PopKey(schema.v, "additionalProperties"),
                                      "default")}})
      [] schema.t = "list" ->
           JList([i \in 1..Len(schema.v) |-> CleanGeminiSchema(schema.v[i])])
      [] OTHER -> schema

\* convert_anthropic_to_litellm, the tools: "parameters" of the function
ToolParameters(model, schema) ==
    IF HasAt(model, <<"gemini/">>, 1) THEN CleanGeminiSchema(schema) ELSE schema

\* ------------------------------------------ cfp_adapter: request rewriting
\* normalize_model_name: the first of the suffixes the name ends with is cut off
NormalizeModelName(model_name) ==
    Only({IF ends = {} THEN model_name
          ELSE Slice(model_name, 1, Len(model_name) - Len(CfpSuffixes[Min(ends)])) :
            ends \in {{k \in 1..Len(CfpSuffixes) : EndsWith(model_name, CfpSuffixes[k])}}})

\* "\n\n".join(system_parts)
RECURSIVE JoinParts(_)
JoinParts(parts) ==
    IF parts = <<>> THEN <<>>
    ELSE IF Len(parts) = 1 THEN parts[1]
    ELSE parts[1] \o <<Ws, Ws>> \o JoinParts(Tail(parts))

\* build_cfp_messages, the branch for an assistant message with a
\* function_call: encode_call(call_id, name, {}), encode_args_delta(call_id,
\* arguments) and encode_args_complete(call_id) in one content, each with the
\* role marker in its tag (use_role_markers is left at its default)
FunctionCallContent(id, fc) ==
    Encode([Doc("call", id) EXCEPT !.name = fc.name, !.args_is_dict = TRUE], TRUE)
        \o Encode([Doc("args_delta", id) EXCEPT !.has_delta = TRUE,
                                                !.delta = fc.arguments], TRUE)
        \o Encode(Doc("args_complete", id), TRUE)

\* build_cfp_messages: one system message made of the system messages, the
\* description of the tools ("TOOLS") and the CFP guide ("GUIDE"), then the
\* other messages as they are
BuildCfpMessages(messages, tools) ==
    Only({<<Msg("system",
                Str(JoinParts([i \in 1..Len(sys) |-> sys[i].content.text]
                                \o (IF tools # <<>> THEN <<(<<"TOOLS">>)>> ELSE <<>>)
                                \o <<(<<"GUIDE">>)>>)))>>
             \o SelectSeq(messages, LAMBDA m : m.role # "system") :
            sys \in {SelectSeq(messages, LAMBDA m : m.role = "system")}})

\* a rewriting that works on the caller's dict instead of a copy
AdaptRequestForCfpInPlace(req, cfp_enabled) ==
    IF ~cfp_enabled \/ ~req.has_tools \/ req.tools = <<>>
    THEN [req |-> req, new_req |-> req, cfp_used |-> FALSE]
    ELSE Only({[req |-> new_req, new_req |-> new_req, cfp_used |-> TRUE] :
                 new_req \in {[req EXCEPT
                                 !.messages = BuildCfpMessages(req.messages, req.tools),
                                 !.model = NormalizeModelName(req.model),
                                 !.has_tools = FALSE, !.tools = <<>>,
                                 !.has_tool_choice = TRUE, !.tool_choice = "None"]}})

\* adapt_request_for_cfp: the caller's dict after the call, the dict returned
\* and the flag returned (a dict is a record: has_tools says whether the key
\* "tools" is there, has_tool_choice whether "tool_choice" is)
AdaptRequestForCfp(req, cfp_enabled) ==
    IF ~cfp_enabled \/ ~req.has_tools \/ req.tools = <<>>
    THEN [req |-> req, new_req |-> req, cfp_used |-> FALSE]
    ELSE [req |-> req,
          new_req |-> [req EXCEPT
                          !.messages = BuildCfpMessages(req.messages, req.tools),
                          !.model = NormalizeModelName(req.model),
                          !.has_tools = FALSE, !.tools = <<>>,
                          !.has_tool_choice = TRUE, !.tool_choice = "None"],
          cfp_used |-> TRUE]

\* ------------------------------------------------------ the unary response
\* A completion as create_message gets it from litellm.completion: the
\* content of choices[0].message (None and "" are read alike everywhere, both
\* are <<>>), its tool_calls, the finish_reason, and the attribute _from_cfp.
\* A tool call is its id, the name of the function and the arguments string.
Completion(content, tool_calls, reason) ==
    [content |-> content, tool_calls |-> tool_calls, finish_reason |-> reason,
     from_cfp |-> FALSE]

FunctionCall(id, name, arguments) == [id |-> id, name |-> name, arguments |-> arguments]

\* get_completed_tool_calls, one call: a leading "{}" is cut off the
\* arguments, then they are parsed and serialized again, "{}" when that fails
CleanArguments(args) ==
    Only({IF ArgsJsonValid(args_str) THEN ArgsReserialize(args_str) ELSE <<"e">> :
            args_str \in {IF args # <<>> /\ Head(args) = "e" THEN Tail(args) ELSE args}})

GetCompletedToolCalls(p) ==
    [i \in 1..Len(p.completed_calls) |->
        FunctionCall(p.completed_calls[i].id, p.completed_calls[i].name,
                     CleanArguments(p.completed_calls[i].args))]

\* the second value parse_cfp_response returns: the completed tool calls,
\* <<>> for None
CfpResponseCalls(text) ==
    IF ~HasCfpBlocks(text) THEN <<>>
    ELSE Only({Only({GetCompletedToolCalls(fin.parser) :
                        fin \in {FinalizeStream(fed.parser)}}) :
                 fed \in {ParseStreamChunk(NewParser, text)}})

\* cfp_codec.clean_cfp_text: _cfp_re.sub('', txt), every <cfp>...</cfp> with
\* at least one character inside is taken out, left to right
RECURSIVE CleanCfpText(_)
CleanCfpText(txt) ==
    Only({IF starts = {} THEN txt
          ELSE Only({Slice(txt, 1, i - 1)
                        \o CleanCfpText(Slice(txt, k + Len(TAG_CLOSE), Len(txt))) :
                       i \in {Min(starts)},
                       k \in {Find(txt, TAG_CLOSE, Min(starts) + Len(TAG_OPEN) + 1)}}) :
            starts \in {{i \in 1..Len(txt) :
                            /\ HasAt(txt, TAG_OPEN, i)
                            /\ Find(txt, TAG_CLOSE, i + Len(TAG_OPEN) + 1) # 0}}})

\* adapt_response_from_cfp
AdaptResponseFromCfp(resp, cfp_used) ==
    IF ~cfp_used THEN resp
    ELSE Only({IF calls # <<>>
               THEN [resp EXCEPT !.tool_calls = calls, !.content = <<>>,
                                 !.finish_reason = "tool_calls", !.from_cfp = TRUE]
               ELSE Only({[resp EXCEPT !.content =
                              IF ~plain.is_none /\ plain.text # <<>>
                              THEN CleanCfpText(plain.text) ELSE <<>>] :
                            plain \in {ParseCfpResponse(resp.content)}}) :
                 calls \in {CfpResponseCalls(resp.content)}})

\* One block of the content list of the Anthropic response.  The input of a
\* tool_use block is the value json.loads gives for the arguments ("json",
\* the string in its canonical form), or {"raw": arguments} ("raw").
TextBlock(text) ==
    [type |-> "text", text |-> text, id |-> "", name |-> "",
     input |-> [kind |-> "", value |-> <<>>]]
ToolUseInput(arguments) ==
    IF ArgsJsonValid(arguments)
    THEN [kind |-> "json", value |-> ArgsReserialize(arguments)]
    ELSE [kind |-> "raw", value |-> arguments]
ToolUseBlock(tc) ==
    [type |-> "tool_use", text |-> <<>>, id |-> tc.id, name |-> tc.name,
     input |-> ToolUseInput(tc.arguments)]

\* "is_claude_model": the model, without anthropic/ or openai/ in front,
\* starts with claude-
IsClaudeModel(model) ==
    \E clean_model \in {IF model # <<>> /\ Head(model) \in {"anthropic/", "openai/"}
                        THEN Tail(model) ELSE model} :
        clean_model # <<>> /\ Head(clean_model) = "claude-"

\* the text a model that is no Claude model gets its tool calls as:
\* "Tool usage:" ("G"), and for each call its name and arguments ("g")
RECURSIVE ToolText(_)
ToolText(tool_calls) ==
    IF tool_calls = <<>> THEN <<>>
    ELSE <<"g">> \o ToolText(Tail(tool_calls))

\* the mapping of finish_reason to stop_reason at the end of
\* convert_litellm_to_anthropic
MapFinishReason(finish_reason) ==
    CASE finish_reason = "stop" -> "end_turn"
      [] finish_reason = "length" -> "max_tokens"
      [] finish_reason = "tool_calls" -> "tool_use"
      [] OTHER -> "end_turn"

\* MessagesResponse(content=content, ...): ContentBlockToolUse.input is a
\* Dict[str, Any], so a tool_use block whose input is parsed JSON that is no
\* object makes the constructor raise ValidationError
ValidationFails(content) ==
    \E i \in 1..Len(content) :
        /\ content[i].type = "tool_use"
        /\ content[i].input.kind = "json"
        /\ content[i].input.value \notin {<<"O">>, <<"e">>}

\* "except Exception as e": the response returned in place of the translation
FallbackResponse ==
    [content |-> <<TextBlock(<<"Error converting response">>)>>,
     stop_reason |-> "end_turn"]

\* convert_litellm_to_anthropic: the content list and the stop_reason
ConvertLitellmToAnthropic(resp, model) ==
    Only({Only({IF ValidationFails(content) THEN FallbackResponse
                ELSE
                [content |-> IF content = <<>> THEN <<TextBlock(<<>>)>> ELSE content,
                 stop_reason |-> MapFinishReason(finish_reason)] :
                  content \in
                    {IF resp.tool_calls = <<>> THEN text
                     ELSE IF resp.from_cfp \/ IsClaudeModel(model)
                     THEN text \o [i \in 1..Len(resp.tool_calls) |->
                                      ToolUseBlock(resp.tool_calls[i])]
                     ELSE <<TextBlock(resp.content \o <<"G">> \o ToolText(resp.tool_calls))>>},
                  finish_reason \in
                    {IF /\ resp.tool_calls # <<>>
                        /\ resp.from_cfp
                        /\ resp.finish_reason = "tool_calls"
                     THEN "tool_use" ELSE resp.finish_reason}}) :
            text \in {IF resp.content # <<>> THEN <<TextBlock(resp.content)>> ELSE <<>>}})

\* ------------------------------------------------------------------- state
VARIABLES
    buffer, active_calls, completed_calls,   \* the CFPStreamParser of the request
    input, pos, events, ppc,                 \* its driver: text to feed, fed so far, events returned
    \* handle_streaming: its arguments, its locals, what it has yielded
    cfp_used, pc, out,
    tool_index, text_sent, text_block_closed, text_block_started,
    has_sent_stop_reason, tool_calls_in_progress, cfp_active_calls,
    cfp_call_index, cfp_has_tool_calls, accumulated_text, finish_reason,
    output_tokens,
    \* response_generator: open / ended / raised, the chunk it gave last, how
    \* many chunks it gave, how many tool calls it has announced
    upstream, chunk, nchunks, up_tools,
    \* create_message: the environment the server was started in, the body of
    \* the POST, the validated request, the channel chosen, the litellm
    \* request, what adapt_request_for_cfp returned, and how far it has got
    env, body, request, provider_info, litellm_request, adapted, rpc,
    \* create_message, stream false: what litellm.completion returned, the
    \* response after adapt_response_from_cfp, the Anthropic response, and
    \* how far it has got
    completion, litellm_response, anthropic_response, upc,
    \* the codec: the dict encode is called for and its use_role_markers
    \* argument, the text it returned, what extract_blocks made of the text,
    \* what parse_block made of the first block, and how far it has got
    doc, use_role_markers, encoded, blocks, parsed, cpc,
    \* two requests streamed at once: the locals of each handle_streaming
    \* call (cfp_parser as the address of its parser), the CFPStreamParser
    \* objects that exist, and the chunks each call has consumed
    streams, heap, consumed,
    \* convert_anthropic_to_litellm, one tool: its input_schema, the
    \* parameters of the function made of it, and how far it has got
    input_schema, parameters, tpc,
    \* build_cfp_messages, one assistant message with a function_call: the
    \* function_call and the id new_call_id() gave it
    function_call, call_id

parserVars == <<buffer, active_calls, completed_calls>>
driverVars == <<input, pos, events, ppc>>
handlerVars == <<cfp_used, pc, out, tool_index, text_sent, text_block_closed,
                 text_block_started, has_sent_stop_reason, tool_calls_in_progress,
                 cfp_active_calls, cfp_call_index, cfp_has_tool_calls,
                 accumulated_text, finish_reason, output_tokens>>
upstreamVars == <<upstream, chunk, nchunks, up_tools>>
requestVars == <<env, body, request, provider_info, litellm_request, adapted, rpc>>
unaryVars == <<completion, litellm_response, anthropic_response, upc>>
codecVars == <<doc, use_role_markers, encoded, blocks, parsed, cpc>>
concurrentVars == <<streams, heap, consumed>>
toolsVars == <<input_schema, parameters, tpc>>
historyVars == <<function_call, call_id>>
vars == <<parserVars, driverVars, handlerVars, upstreamVars, requestVars, unaryVars,
          codecVars, concurrentVars, toolsVars, historyVars>>

Parser == [buffer |-> buffer, active_calls |-> active_calls,
           completed_calls |-> completed_calls]

SetParser(p) ==
    /\ buffer' = p.buffer
    /\ active_calls' = p.active_calls
    /\ completed_calls' = p.completed_calls

\* the locals of handle_streaming as one value, and back
Handler ==
    [cfp_used |-> cfp_used, pc |-> pc, out |-> out, tool_index |-> tool_index,
     text_sent |-> text_sent, text_block_closed |-> text_block_closed,
     text_block_started |-> text_block_started,
     has_sent_stop_reason |-> has_sent_stop_reason,
     tool_calls_in_progress |-> tool_calls_in_progress,
     cfp_active_calls |-> cfp_active_calls, cfp_call_index |-> cfp_call_index,
     cfp_has_tool_calls |-> cfp_has_tool_calls,
     accumulated_text |-> accumulated_text, finish_reason |-> finish_reason,
     output_tokens |-> output_tokens, parser |-> Parser]

SetHandler(st) ==
    /\ SetParser(st.parser)
    /\ cfp_used' = st.cfp_used
    /\ pc' = st.pc
    /\ out' = st.out
    /\ tool_index' = st.tool_index
    /\ text_sent' = st.text_sent
    /\ text_block_closed' = st.text_block_closed
    /\ text_block_started' = st.text_block_started
    /\ has_sent_stop_reason' = st.has_sent_stop_reason
    /\ tool_calls_in_progress' = st.tool_calls_in_progress
    /\ cfp_active_calls' = st.cfp_active_calls
    /\ cfp_call_index' = st.cfp_call_index
    /\ cfp_has_tool_calls' = st.cfp_has_tool_calls
    /\ accumulated_text' = st.accumulated_text
    /\ finish_reason' = st.finish_reason
    /\ output_tokens' = st.output_tokens

NoChunk == [has_choices |-> FALSE, content |-> <<>>, tool_calls |-> <<>>,
            finish_reason |-> "None", usage |-> -1]

\* the locals before the first chunk (tool_index None is -1)
HandlerInit ==
    /\ pc = "start"
    /\ out = <<>>
    /\ tool_index = -1
    /\ text_sent = FALSE
    /\ text_block_closed = FALSE
    /\ text_block_started = FALSE
    /\ has_sent_stop_reason = FALSE
    /\ tool_calls_in_progress = <<>>
    /\ cfp_active_calls = <<>>
    /\ cfp_call_index = 0
    /\ cfp_has_tool_calls = FALSE
    /\ accumulated_text = <<>>
    /\ finish_reason = "stop"
    /\ output_tokens = 0
    /\ upstream = "open"
    /\ chunk = NoChunk
    /\ nchunks = 0
    /\ up_tools = 0

\* the environment with nothing but the defaults (server.py 86-91)
DefaultEnv == [PREFERRED_PROVIDER |-> "openai", BIG_MODEL |-> <<"big">>,
               SMALL_MODEL |-> <<"small">>, channels |-> {"default"}]

NoRequest == [model |-> <<>>, cfp_enabled |-> FALSE]
NoLitellmRequest ==
    [model |-> <<>>, messages |-> <<>>, has_tools |-> FALSE, tools |-> <<>>,
     has_tool_choice |-> FALSE, tool_choice |-> "", api_key |-> "", api_base |-> ""]
NotAdapted == [before |-> NoLitellmRequest, req |-> NoLitellmRequest, cfp_used |-> FALSE]

\* no request is being handled
RequestIdle ==
    /\ env = DefaultEnv
    /\ body = [model |-> <<>>, system |-> <<>>, messages |-> <<>>, tools |-> <<>>]
    /\ request = NoRequest
    /\ provider_info = "default"
    /\ litellm_request = NoLitellmRequest
    /\ adapted = NotAdapted
    /\ rpc = "idle"

NoCompletion == Completion(<<>>, <<>>, "None")
NoAnthropicResponse == [content |-> <<>>, stop_reason |-> "None", status_code |-> 0]

\* no completion has been asked for
UnaryIdle ==
    /\ completion = NoCompletion
    /\ litellm_response = NoCompletion
    /\ anthropic_response = NoAnthropicResponse
    /\ upc = "idle"

\* the codec is not in use
CodecIdle ==
    /\ doc = NotADict
    /\ use_role_markers = TRUE
    /\ encoded = <<>>
    /\ blocks = <<>>
    /\ parsed = NotADict
    /\ cpc = "idle"

\* no two requests are streamed at once
ConcurrentIdle ==
    /\ streams = <<>>
    /\ heap = <<>>
    /\ consumed = <<>>

\* no tool is being converted
ToolsIdle ==
    /\ input_schema = JStr("")
    /\ parameters = JStr("")
    /\ tpc = "idle"

\* no history is being written
NoFunctionCall == [name |-> "", arguments |-> <<>>]
HistoryIdle ==
    /\ function_call = NoFunctionCall
    /\ call_id = ""

\* ------------------------------------------------------- parser under test
Block(tok) == TAG_OPEN \o <<tok>> \o TAG_CLOSE

\* what the inputs are made of: text, whitespace, whole blocks, a block
\* whose closing tag is missing, and a complete run that is no valid block
Pieces == {<<"x">>, <<Ws>>, TAG_OPEN \o <<"Ca">>}
            \cup {Block(t) : t \in {"Ca", "Da", "Ka", "V"}}

RECURSIVE PieceSeqs(_)
PieceSeqs(n) ==
    IF n = 0 THEN {<<>>}
    ELSE LET shorter == PieceSeqs(n - 1)
         IN  shorter \cup {s \o p : s \in shorter, p \in Pieces}

Inputs == PieceSeqs(MaxPieces)

ParserInit ==
    /\ buffer = <<>>
    /\ active_calls = <<>>
    /\ completed_calls = <<>>
    /\ input \in Inputs
    /\ pos = 0
    /\ events = <<>>
    /\ ppc = "feeding"
    /\ cfp_used = TRUE
    /\ HandlerInit
    /\ RequestIdle
    /\ UnaryIdle
    /\ CodecIdle
    /\ ConcurrentIdle
    /\ ToolsIdle
    /\ HistoryIdle

\* parse_stream_chunk(fragment) for the next fragment of the input, any length
Feed(n) ==
    /\ ppc = "feeding"
    /\ pos + n <= Len(input)
    /\ \E r \in {ParseStreamChunk(Parser, Slice(input, pos + 1, pos + n))} :
          /\ SetParser(r.parser)
          /\ events' = events \o r.events
    /\ pos' = pos + n
    /\ UNCHANGED <<input, ppc, handlerVars, upstreamVars, requestVars, unaryVars,
                 codecVars, concurrentVars, toolsVars, historyVars>>

\* finalize_stream(), once the whole input was fed
Finalize ==
    /\ ppc = "feeding"
    /\ pos = Len(input)
    /\ \E r \in {FinalizeStream(Parser)} :
          /\ SetParser(r.parser)
          /\ events' = events \o r.events
    /\ ppc' = "finalized"
    /\ UNCHANGED <<input, pos, handlerVars, upstreamVars, requestVars, unaryVars,
                 codecVars, concurrentVars, toolsVars, historyVars>>

MaxInputLen == (Len(TAG_OPEN) + Len(TAG_CLOSE) + 1) * MaxPieces

ParserNext ==
    \/ \E n \in 0..MaxInputLen : Feed(n)
    \/ Finalize

ParserSpec == ParserInit /\ [][ParserNext]_vars

\* ------------------------------------------------- one streaming response
ToolCall(index, id, name, arguments) ==
    [type |-> "function", has_function |-> TRUE, index |-> index, id |-> id,
     name |-> name, arguments |-> arguments]

Chunk(content, tool_calls, reason) ==
    [has_choices |-> TRUE, content |-> content, tool_calls |-> tool_calls,
     finish_reason |-> reason, usage |-> -1]

\* a chunk without choices that carries the usage
UsageChunk == [NoChunk EXCEPT !.usage = 7]

FinishReasons == {"stop", "length", "tool_calls"}

\* delta.content in CFP mode: text, whole blocks, and a block in two parts
CfpContents ==
    {<<"x">>, Slice(Block("Ca"), 1, 3), Slice(Block("Ca"), 4, Len(Block("Ca")))}
        \cup {Block(t) : t \in {"Ca", "Cb", "Da", "Ka", "R"}}

\* delta.tool_calls: the upstream numbers its tool calls 0, 1, ... in the
\* order it starts them; the first fragment of a call carries its name, the
\* later ones only arguments
ToolCallLists(n) ==
    {<<ToolCall(n, "call", "f", <<>>)>>,
     <<ToolCall(n, "", "f", <<"o">>)>>,
     <<ToolCall(n, "call", "f", <<>>), ToolCall(n + 1, "call", "g", <<>>)>>}
        \cup {<<ToolCall(k, "", "", <<"o">>)>> : k \in 0..(n - 1)}

UpstreamChunks ==
    {UsageChunk}
        \cup {Chunk(<<>>, <<>>, r) : r \in FinishReasons}
        \cup (IF cfp_used
               THEN {Chunk(c, <<>>, "None") : c \in CfpContents}
               ELSE {Chunk(<<"x">>, <<>>, "None")}
                       \cup {Chunk(<<>>, t, r) : t \in ToolCallLists(up_tools),
                                                   r \in {"None", "tool_calls"}})

AnnouncedTools(ch) ==
    LET idx == {ch.tool_calls[i].index + 1 : i \in 1..Len(ch.tool_calls)} \cup {up_tools}
    IN  CHOOSE m \in idx : \A n \in idx : n <= m

Init ==
    /\ buffer = <<>>
    /\ active_calls = <<>>
    /\ completed_calls = <<>>
    /\ input = <<>>
    /\ pos = 0
    /\ events = <<>>
    /\ ppc = "feeding"
    /\ cfp_used \in BOOLEAN
    /\ HandlerInit
    /\ RequestIdle
    /\ UnaryIdle
    /\ CodecIdle
    /\ ConcurrentIdle
    /\ ToolsIdle
    /\ HistoryIdle

\* the generator is started: message_start is the first thing it yields
Start ==
    /\ pc = "start"
    /\ \E st \in {Yield([Handler EXCEPT !.pc = "streaming"], MessageStart)} :
          SetHandler(st)
    /\ UNCHANGED <<driverVars, upstreamVars, requestVars, unaryVars,
                 codecVars, concurrentVars, toolsVars, historyVars>>

\* the upstream gives one more chunk and the loop body runs on it
NextChunk ==
    /\ pc = "streaming"
    /\ upstream = "open"
    /\ nchunks < MaxChunks
    /\ \E ch \in UpstreamChunks :
          /\ \E st \in {ProcessChunk(Handler, ch)} : SetHandler(st)
          /\ chunk' = ch
          /\ up_tools' = AnnouncedTools(ch)
    /\ nchunks' = nchunks + 1
    /\ UNCHANGED <<driverVars, upstream, requestVars, unaryVars,
                 codecVars, concurrentVars, toolsVars, historyVars>>

\* the upstream iterator ends
IteratorEnds ==
    /\ pc = "streaming"
    /\ upstream = "open"
    /\ \E st \in {InterruptPath(Handler)} : SetHandler(st)
    /\ upstream' = "ended"
    /\ UNCHANGED <<driverVars, chunk, nchunks, up_tools, requestVars, unaryVars,
                 codecVars, concurrentVars, toolsVars, historyVars>>

\* the upstream iterator raises
IteratorRaises ==
    /\ pc = "streaming"
    /\ upstream = "open"
    /\ \E st \in {ErrorPath(Handler)} : SetHandler(st)
    /\ upstream' = "raised"
    /\ UNCHANGED <<driverVars, chunk, nchunks, up_tools, requestVars, unaryVars,
                 codecVars, concurrentVars, toolsVars, historyVars>>

Next == Start \/ NextChunk \/ IteratorEnds \/ IteratorRaises

Spec == Init /\ [][Next]_vars

\* ------------------------------------------------------ one POST /v1/messages
\* The model strings a client sends: an optional provider prefix, a name that
\* is an alias keyword or not, an optional CFP suffix, an optional channel.
ModelPrefixes == {<<>>, <<"openai/">>, <<"gemini/">>}
ModelBaseNames == {<<"m">>, <<"haiku">>, <<"Haiku">>, <<"sonnet">>}
ModelFlags == {<<>>, <<"-cfp">>, <<"-text">>, <<"-text", "only">>}
ModelChannels == {<<>>, <<":", "chan">>, <<":", "CHAN">>, <<":", "nochan">>}
ModelNames ==
    {p \o n \o f \o c : p \in ModelPrefixes, n \in ModelBaseNames,
                        f \in ModelFlags, c \in ModelChannels}

\* The environments the server is started in: PREFERRED_PROVIDER, BIG_MODEL
\* and SMALL_MODEL with and without a provider prefix, and one channel,
\* CHANNEL_CHAN_BASE_URL, next to the default provider
Envs ==
    {[PREFERRED_PROVIDER |-> pp, BIG_MODEL |-> t[1], SMALL_MODEL |-> t[2],
      channels |-> {"default", "chan"}] :
        pp \in {"openai", "google", "anthropic"},
        t \in {<<(<<"big">>), (<<"small">>)>>,
               <<(<<"gemini/", "big">>), (<<"anthropic/", "small", "-cfp">>)>>}}

\* The conversations a client sends, one message each
BodyMessages ==
    {<<Msg("user", c)>> :
        c \in {Str(<<"x">>), Str(<<>>), Blocks(<<>>),
               Blocks(<<ContentBlock("text", <<Ws>>)>>),
               Blocks(<<ContentBlock("tool_result", <<"x">>)>>),
               Blocks(<<ContentBlock("image", <<>>)>>)}}
    \cup {<<Msg("assistant", Blocks(<<ContentBlock("tool_use", <<>>)>>))>>,
          <<Msg("assistant", Blocks(<<ContentBlock("tool_result", <<>>)>>))>>}

\* a request has arrived; the parser and the stream handler have not started
RequestInit ==
    /\ buffer = <<>>
    /\ active_calls = << >>
    /\ completed_calls = << >>
    /\ input = <<>>
    /\ pos = 0
    /\ events = <<>>
    /\ ppc = "feeding"
    /\ cfp_used = FALSE
    /\ HandlerInit
    /\ env \in Envs
    /\ body \in [model : ModelNames, system : {<<>>, <<"x">>},
                 messages : BodyMessages, tools : {<<>>, <<"t">>}]
    /\ request = NoRequest
    /\ provider_info = "default"
    /\ litellm_request = NoLitellmRequest
    /\ adapted = NotAdapted
    /\ rpc = "received"
    /\ UnaryIdle
    /\ CodecIdle
    /\ ConcurrentIdle
    /\ ToolsIdle
    /\ HistoryIdle

notRequestVars == <<parserVars, driverVars, handlerVars, upstreamVars, unaryVars, codecVars,
                    concurrentVars, toolsVars, historyVars>>

\* MessagesRequest is built from the body: validate_model_field maps the
\* model and writes _cfp_enabled into info.data, the dict that becomes the
\* __dict__ of the request, where create_message later reads it with
\* getattr(request, '_cfp_enabled', False)
ValidateRequest ==
    /\ rpc = "received"
    /\ \E r \in {ValidateModelField(body.model, env)} :
        request' = [model |-> r.model, cfp_enabled |-> r.cfp_enabled]
    /\ rpc' = "validated"
    /\ UNCHANGED <<notRequestVars, env, body, provider_info, litellm_request, adapted>>

\* create_message: get_provider_for_model and get_clean_model_name on
\* request.model, then request.model = clean_model_with_prefix
ResolveChannel ==
    /\ rpc = "validated"
    /\ \E r \in {ParseModelAndChannel(request.model, env.channels)} :
        /\ provider_info' = r.provider
        /\ request' = [request EXCEPT !.model = r.model]
    /\ rpc' = "routed"
    /\ UNCHANGED <<notRequestVars, env, body, litellm_request, adapted>>

\* create_message: convert_anthropic_to_litellm, the key and URL of a
\* channel other than the default, and the normalization for OpenAI models.
\* api_key and api_base say whose key and whose base_url they are: a channel
\* name, or for the default channel the environment variable the key is from
TranslateRequest ==
    /\ rpc = "routed"
    /\ litellm_request' =
         [model |-> request.model,
          messages |-> NormalizeForOpenAi(request.model,
                                          ConvertMessages(body.system, body.messages)),
          has_tools |-> body.tools # <<>>,
          tools |-> body.tools,
          has_tool_choice |-> FALSE,
          tool_choice |-> "",
          api_key |-> IF provider_info # "default" THEN provider_info
                      ELSE IF HasAt(request.model, <<"openai/">>, 1) THEN "OPENAI_API_KEY"
                      ELSE IF HasAt(request.model, <<"gemini/">>, 1) THEN "GEMINI_API_KEY"
                      ELSE "ANTHROPIC_API_KEY",
          api_base |-> IF provider_info # "default" THEN provider_info ELSE ""]
    /\ rpc' = "translated"
    /\ UNCHANGED <<notRequestVars, env, body, request, provider_info, adapted>>

\* create_message, the CFP step and the default channel's URL and key:
\* adapted keeps the dict handed to adapt_request_for_cfp as it was before
\* the call and as it is after it, and the flag _cfp_used
AdaptRequest ==
    /\ rpc = "translated"
    /\ \E r \in {IF request.cfp_enabled
                 THEN AdaptRequestForCfp(litellm_request, request.cfp_enabled)
                 ELSE [req |-> litellm_request, new_req |-> litellm_request,
                       cfp_used |-> FALSE]} :
        /\ adapted' = [before |-> litellm_request, req |-> r.req,
                       cfp_used |-> r.cfp_used]
        /\ litellm_request' =
             IF provider_info = "default"
             THEN [r.new_req EXCEPT !.api_base = "default", !.api_key = "default"]
             ELSE r.new_req
    /\ rpc' = "adapted"
    /\ UNCHANGED <<notRequestVars, env, body, request, provider_info>>

RequestNext == ValidateRequest \/ ResolveChannel \/ TranslateRequest \/ AdaptRequest

RequestSpec == RequestInit /\ [][RequestNext]_vars

\* ---------------------------------------------------- one unary completion
\* the models the request was routed to
UnaryModels == {<<"openai/", "m">>, <<"anthropic/", "claude-", "m">>,
                <<"gemini/", "claude-", "m">>}

\* finish_reason of the upstream
UnaryFinishReasons == {"stop", "length", "tool_calls", "content_filter"}

\* message.content when the request was rewritten for CFP: nothing, text,
\* calls with and without arguments, a call that is never completed, two
\* calls, text before a call, a result, a run that is no valid block, a call
\* whose arguments are a JSON array, text before a result, text around a call
\* that is not completed, a result before a completed call
UnaryCfpContents ==
    {<<>>, <<"x">>,
     Block("Ca") \o Block("Ka"),
     Block("Ca") \o Block("Da") \o Block("Ka"),
     <<"x">> \o Block("Ca") \o Block("Da") \o Block("Ka"),
     Block("Ca") \o Block("Ka") \o Block("Cb") \o Block("Db") \o Block("Kb"),
     Block("Ca") \o Block("Da"),
     Block("R"),
     <<"x">> \o Block("V"),
     Block("Ca") \o Block("Na") \o Block("Ka"),
     <<"x">> \o Block("R"),
     <<"x">> \o Block("Ca"),
     Block("R") \o Block("Ca") \o Block("Ka"),
     Block("Ca") \o <<Ws, "x", Ws>>}

\* message.tool_calls when the request went out with its tools
UnaryToolCalls ==
    {<<>>,
     <<FunctionCall("call1", "f", <<"o">>)>>,
     <<FunctionCall("call1", "f", <<"x">>)>>,
     <<FunctionCall("call1", "f", <<"n">>)>>,
     <<FunctionCall("call1", "f", <<"e">>), FunctionCall("call2", "g", <<"o">>)>>}

\* litellm.completion has returned
UnaryInit ==
    /\ buffer = <<>>
    /\ active_calls = << >>
    /\ completed_calls = << >>
    /\ input = <<>>
    /\ pos = 0
    /\ events = <<>>
    /\ ppc = "feeding"
    /\ cfp_used \in BOOLEAN
    /\ HandlerInit
    /\ env = DefaultEnv
    /\ body = [model |-> <<>>, system |-> <<>>, messages |-> <<>>, tools |-> <<>>]
    /\ request \in [model : UnaryModels, cfp_enabled : {cfp_used}]
    /\ provider_info = "default"
    /\ litellm_request = NoLitellmRequest
    /\ adapted = [NotAdapted EXCEPT !.cfp_used = cfp_used]
    /\ rpc = "sent"
    /\ completion \in
         IF cfp_used
         THEN {Completion(c, <<>>, r) : c \in UnaryCfpContents, r \in UnaryFinishReasons}
         ELSE {Completion(c, t, r) : c \in {<<>>, <<"x">>}, t \in UnaryToolCalls,
                                     r \in UnaryFinishReasons}
    /\ litellm_response = NoCompletion
    /\ anthropic_response = NoAnthropicResponse
    /\ upc = "received"
    /\ CodecIdle
    /\ ConcurrentIdle
    /\ ToolsIdle
    /\ HistoryIdle

notUnaryVars == <<parserVars, driverVars, handlerVars, upstreamVars, requestVars,
                  codecVars, concurrentVars, toolsVars, historyVars>>

\* litellm_response = adapt_response_from_cfp(litellm_response, _cfp_used)
AdaptResponse ==
    /\ upc = "received"
    /\ litellm_response' = AdaptResponseFromCfp(completion, cfp_used)
    /\ upc' = "adapted"
    /\ UNCHANGED <<notUnaryVars, completion, anthropic_response>>

\* anthropic_response = convert_litellm_to_anthropic(litellm_response, request)
\* and "return anthropic_response": the body of a 200 response
ConvertResponse ==
    /\ upc = "adapted"
    /\ \E r \in {ConvertLitellmToAnthropic(litellm_response, request.model)} :
          anthropic_response' = [content |-> r.content, stop_reason |-> r.stop_reason,
                                 status_code |-> 200]
    /\ upc' = "converted"
    /\ UNCHANGED <<notUnaryVars, completion, litellm_response>>

UnaryNext == AdaptResponse \/ ConvertResponse

UnarySpec == UnaryInit /\ [][UnaryNext]_vars

\* ------------------------------------------------------- the codec alone
\* the delta strings encode_args_delta is called with: text, nothing, and
\* text that holds the delimiters
EncodableDeltas ==
    {<<"o">>, <<"x">>, <<>>, TAG_CLOSE, <<"x">> \o TAG_CLOSE \o <<"x">>,
     TAG_OPEN \o <<"x">> \o TAG_CLOSE}

\* the dicts encode is called for: valid role, id and fields
EncodableDocs ==
    {PayloadDoc(t) : t \in EncodableTokens}
        \cup {[Doc("args_delta", id) EXCEPT !.has_delta = TRUE, !.delta = d] :
                 id \in Ids, d \in EncodableDeltas}

CodecInit ==
    /\ buffer = <<>>
    /\ active_calls = << >>
    /\ completed_calls = << >>
    /\ input = <<>>
    /\ pos = 0
    /\ events = <<>>
    /\ ppc = "feeding"
    /\ cfp_used = FALSE
    /\ HandlerInit
    /\ RequestIdle
    /\ UnaryIdle
    /\ doc \in EncodableDocs
    /\ use_role_markers \in BOOLEAN
    /\ encoded = <<>>
    /\ blocks = <<>>
    /\ parsed = NotADict
    /\ cpc = "called"
    /\ ConcurrentIdle
    /\ ToolsIdle
    /\ HistoryIdle

notCodecVars == <<parserVars, driverVars, handlerVars, upstreamVars, requestVars,
                  unaryVars, concurrentVars, toolsVars, historyVars>>

\* encode(role, call_id, ..., use_role_markers)
EncodeBlock ==
    /\ cpc = "called"
    /\ encoded' = Encode(doc, use_role_markers)
    /\ cpc' = "encoded"
    /\ UNCHANGED <<notCodecVars, doc, use_role_markers, blocks, parsed>>

\* extract_blocks(encoded)
ExtractEncoded ==
    /\ cpc = "encoded"
    /\ blocks' = ExtractBlocks(encoded)
    /\ cpc' = "extracted"
    /\ UNCHANGED <<notCodecVars, doc, use_role_markers, encoded, parsed>>

\* parse_block(blocks[0])
ParseFirstBlock ==
    /\ cpc = "extracted"
    /\ blocks # <<>>
    /\ parsed' = ParseBlock(blocks[1])
    /\ cpc' = "parsed"
    /\ UNCHANGED <<notCodecVars, doc, use_role_markers, encoded, blocks>>

CodecNext == EncodeBlock \/ ExtractEncoded \/ ParseFirstBlock

CodecSpec == CodecInit /\ [][CodecNext]_vars

\* ------------------------------------------- two streaming responses at once
Requests == {1, 2}

\* the locals of handle_streaming when the generator is created
NewLocals(cfp) ==
    [cfp_used |-> cfp, pc |-> "start", out |-> <<>>, tool_index |-> -1,
     text_sent |-> FALSE, text_block_closed |-> FALSE, text_block_started |-> FALSE,
     has_sent_stop_reason |-> FALSE, tool_calls_in_progress |-> <<>>,
     cfp_active_calls |-> <<>>, cfp_call_index |-> 0, cfp_has_tool_calls |-> FALSE,
     accumulated_text |-> <<>>, finish_reason |-> "stop", output_tokens |-> 0,
     parser |-> NewParser]

\* a server that keeps one parser for all requests
NewParserAtShared(h) ==
    [heap |-> IF h = <<>> THEN <<NewParser>> ELSE h, ref |-> 1]

\* "cfp_parser = CFPStreamParser()": a new object, and its address
NewParserAt(h) == [heap |-> Append(h, NewParser), ref |-> Len(h) + 1]

\* the locals of request r with the parser behind cfp_parser, and the
\* locals as they are kept: with the address
Locals(r) == [streams[r] EXCEPT !.parser = heap[@]]

Store(r, st) ==
    /\ heap' = [heap EXCEPT ![streams[r].parser] = st.parser]
    /\ streams' = [streams EXCEPT ![r] = [st EXCEPT !.parser = streams[r].parser]]

\* the end of the upstream iterator, as an entry of consumed
EndOfStream == [NoChunk EXCEPT !.finish_reason = "StopAsyncIteration"]

\* what the two upstreams send: text, a call block in two chunks, the
\* args_complete block of the call, and the chunk with the finish_reason
ConcurrentChunks ==
    {Chunk(c, <<>>, "None") :
        c \in {<<"x">>, Slice(Block("Ca"), 1, 3),
               Slice(Block("Ca"), 4, Len(Block("Ca"))), Block("Ka")}}
        \cup {Chunk(<<>>, <<>>, "stop")}

ConcurrentInit ==
    /\ buffer = <<>>
    /\ active_calls = << >>
    /\ completed_calls = << >>
    /\ input = <<>>
    /\ pos = 0
    /\ events = <<>>
    /\ ppc = "feeding"
    /\ cfp_used = TRUE
    /\ HandlerInit
    /\ RequestIdle
    /\ UnaryIdle
    /\ CodecIdle
    /\ streams = [r \in Requests |-> NewLocals(TRUE)]
    /\ heap = <<>>
    /\ consumed = [r \in Requests |-> <<>>]
    /\ ToolsIdle
    /\ HistoryIdle

notConcurrentVars == <<parserVars, driverVars, handlerVars, upstreamVars, requestVars,
                       unaryVars, codecVars, toolsVars, historyVars>>

\* the generator of request r is started: message_start, then its locals
StartStream(r) ==
    /\ streams[r].pc = "start"
    /\ \E a \in {NewParserAt(heap)} :
          /\ heap' = a.heap
          /\ streams' = [streams EXCEPT ![r] =
                            Yield([@ EXCEPT !.pc = "streaming", !.parser = a.ref],
                                  MessageStart)]
    /\ UNCHANGED <<notConcurrentVars, consumed>>

\* the upstream of request r gives one more chunk and the loop body runs
StreamChunk(r) ==
    /\ streams[r].pc = "streaming"
    /\ Len(consumed[r]) < MaxConcurrentChunks
    /\ \E ch \in ConcurrentChunks :
          /\ \E st \in {ProcessChunk(Locals(r), ch)} : Store(r, st)
          /\ consumed' = [consumed EXCEPT ![r] = Append(@, ch)]
    /\ UNCHANGED notConcurrentVars

\* the upstream iterator of request r ends
StreamEnds(r) ==
    /\ streams[r].pc = "streaming"
    /\ \E st \in {InterruptPath(Locals(r))} : Store(r, st)
    /\ consumed' = [consumed EXCEPT ![r] = Append(@, EndOfStream)]
    /\ UNCHANGED notConcurrentVars

ConcurrentNext == \E r \in Requests : StartStream(r) \/ StreamChunk(r) \/ StreamEnds(r)

ConcurrentSpec == ConcurrentInit /\ [][ConcurrentNext]_vars

\* ------------------------------------------------- the tools of one request
\* The schemas of the tools: strings with and without a format and a
\* default, integers with a format, objects with one property (named a, or
\* named like a keyword) that are closed or not, arrays, and alternatives.
StringNode(format, default) ==
    JDict(<<Entry("type", JStr("string"))>>
            \o (IF format = "" THEN <<>> ELSE <<Entry("format", JStr(format))>>)
            \o (IF default THEN <<Entry("default", JStr("d"))>> ELSE <<>>))

IntegerNode(default) ==
    JDict(<<Entry("type", JStr("integer")), Entry("format", JStr("int32"))>>
            \o (IF default THEN <<Entry("default", JStr("0"))>> ELSE <<>>))

ObjectNode(name, child, closed) ==
    JDict(<<Entry("type", JStr("object")),
            Entry("properties", JDict(<<Entry(name, child)>>)),
            Entry("required", JList(<<JStr(name)>>))>>
            \o (IF closed THEN <<Entry("additionalProperties", JStr("false"))>> ELSE <<>>))

ArrayNode(child) == JDict(<<Entry("type", JStr("array")), Entry("items", child)>>)

AnyOfNode(child) == JDict(<<Entry("anyOf", JList(<<child, IntegerNode(TRUE)>>))>>)

PropertyNames == {"a", "default"}

RECURSIVE Schemas(_)
Schemas(depth) ==
    IF depth = 0
    THEN {StringNode(f, d) : f \in {"", "uri", "date-time", "enum"}, d \in BOOLEAN}
            \cup {IntegerNode(d) : d \in BOOLEAN}
    ELSE Only({inner
                \cup {ObjectNode(n, c, closed) :
                        n \in PropertyNames, c \in inner, closed \in BOOLEAN}
                \cup {ArrayNode(c) : c \in inner}
                \cup {AnyOfNode(c) : c \in inner} :
               inner \in {Schemas(depth - 1)}})

ToolsInit ==
    /\ buffer = <<>>
    /\ active_calls = << >>
    /\ completed_calls = << >>
    /\ input = <<>>
    /\ pos = 0
    /\ events = <<>>
    /\ ppc = "feeding"
    /\ cfp_used = FALSE
    /\ HandlerInit
    /\ env = DefaultEnv
    /\ body = [model |-> <<>>, system |-> <<>>, messages |-> <<>>, tools |-> <<>>]
    /\ request \in [model : {<<"gemini/", "m">>, <<"openai/", "m">>},
                    cfp_enabled : {FALSE}]
    /\ provider_info = "default"
    /\ litellm_request = NoLitellmRequest
    /\ adapted = NotAdapted
    /\ rpc = "routed"
    /\ UnaryIdle
    /\ CodecIdle
    /\ ConcurrentIdle
    /\ input_schema \in Schemas(MaxSchemaDepth)
    /\ parameters = JStr("")
    /\ tpc = "tool"
    /\ HistoryIdle

notToolsVars == <<parserVars, driverVars, handlerVars, upstreamVars, requestVars,
                  unaryVars, codecVars, concurrentVars, historyVars>>

\* one pass of "for tool in anthropic_request.tools"
ConvertTool ==
    /\ tpc = "tool"
    /\ parameters' = ToolParameters(request.model, input_schema)
    /\ tpc' = "converted"
    /\ UNCHANGED <<notToolsVars, input_schema>>

ToolsNext == ConvertTool

ToolsSpec == ToolsInit /\ [][ToolsNext]_vars

\* --------------------------------- a function call written and read again
\* the function calls of an assistant message: arguments that are a JSON
\* object, a JSON value that is no object, no JSON, nothing, and an object
\* that holds the closing tag in a string
FunctionCalls ==
    [name : {"f", "g"},
     arguments : {<<"o">>, <<"O">>, <<"e">>, <<"n">>, <<"x">>, <<>>, ArgsWithClosingTag}]

HistoryInit ==
    /\ buffer = <<>>
    /\ active_calls = << >>
    /\ completed_calls = << >>
    /\ input = <<>>
    /\ pos = 0
    /\ events = <<>>
    /\ ppc = "building"
    /\ cfp_used = TRUE
    /\ HandlerInit
    /\ RequestIdle
    /\ UnaryIdle
    /\ CodecIdle
    /\ ConcurrentIdle
    /\ ToolsIdle
    /\ function_call \in FunctionCalls
    /\ call_id = ""

\* build_cfp_messages for the message: new_call_id() is any id, the content
\* is what the parser will be given
BuildFunctionCall ==
    /\ ppc = "building"
    /\ \E id \in Ids :
          /\ call_id' = id
          /\ input' = FunctionCallContent(id, function_call)
    /\ ppc' = "feeding"
    /\ UNCHANGED <<parserVars, pos, events, handlerVars, upstreamVars, requestVars,
                   unaryVars, codecVars, concurrentVars, toolsVars, function_call>>

\* the content goes to a fresh CFPStreamParser in fragments of any length
HistoryNext ==
    \/ BuildFunctionCall
    \/ \E n \in 0..Len(input) : Feed(n)
    \/ Finalize

HistorySpec == HistoryInit /\ [][HistoryNext]_vars

\* ------------------------------------------ claims: the streaming response
Idx(type) == {i \in 1..Len(out) : out[i].type = type}
Starts(kind) == {i \in Idx("content_block_start") : out[i].kind = kind}
StopsOf(index) == {i \in Idx("content_block_stop") : out[i].index = index}

\* C1: on every path (a chunk with finish_reason, the iterator ending, the
\* iterator raising) the output holds exactly one message_start, as its
\* first item, exactly one message_stop after it, and [DONE] as its last
\* item; nothing is emitted before the end that looks like the end.
C1_SingleTerminator ==
    /\ pc = "start" => out = <<>>
    /\ pc # "start" => Idx("message_start") = {1}
    /\ pc = "streaming" => Idx("message_stop") = {} /\ Idx("[DONE]") = {}
    /\ pc = "done" =>
          /\ Cardinality(Idx("message_stop")) = 1
          /\ Idx("[DONE]") = {Len(out)}
          /\ Idx("message_stop") = {Len(out) - 1}

\* the upstream raised after text had been streamed
C1_Witness ==
    /\ pc = "done"
    /\ upstream = "raised"
    /\ text_block_started
    /\ out[Len(out)] = DoneSentinel

\* C2: when the stream has terminated, every index opened by a
\* content_block_start has exactly one content_block_stop, after the start
\* and before message_delta.
C2_EveryBlockClosed ==
    pc = "done" =>
        \A i \in Idx("content_block_start") :
            /\ Cardinality(StopsOf(out[i].index)) = 1
            /\ \A j \in StopsOf(out[i].index) :
                  i < j /\ \A m \in Idx("message_delta") : j < m

\* C3: a content_block_delta comes after the content_block_start of its
\* index and before the content_block_stop of its index.
C3_DeltaInsideBlock ==
    \A d \in Idx("content_block_delta") :
        /\ \E i \in Idx("content_block_start") : i < d /\ out[i].index = out[d].index
        /\ \A j \in StopsOf(out[d].index) : d < j

\* the fragments that went out as input_json_delta at a block index
RECURSIVE DeltaData(_, _)
DeltaData(index, upto) ==
    IF upto = 0 THEN <<>>
    ELSE DeltaData(index, upto - 1)
            \o (IF /\ out[upto].type = "content_block_delta"
                    /\ out[upto].kind = "input_json_delta"
                    /\ out[upto].index = index
                THEN out[upto].data ELSE <<>>)

\* C4: without CFP, the arguments fragments of an opened tool call all go out
\* as input_json_delta at the index of its block, and the stream is
\* terminated only by a chunk that carries the upstream's finish_reason, by
\* the end of the iterator, or by an error.
C4_ToolBlockStaysOpen ==
    ~cfp_used =>
        /\ \A k \in 1..Len(tool_calls_in_progress) :
              tool_calls_in_progress[k].started =>
                  DeltaData(tool_calls_in_progress[k].index
                                + (IF text_block_started THEN 1 ELSE 0), Len(out))
                      = tool_calls_in_progress[k].arguments
        /\ pc = "done" => chunk.finish_reason # "None" \/ upstream # "open"

\* C5: a text block is opened at index 0 only, the tool-use blocks take the
\* indices 1..N when a text block was opened and 0..N-1 when none was, and
\* no index is opened twice.
C5_BlockIndexDiscipline ==
    /\ \A i \in Starts("text") : out[i].index = 0
    /\ {out[i].index : i \in Starts("tool_use")}
          = IF Starts("text") # {}
            THEN 1..Cardinality(Starts("tool_use"))
            ELSE 0..(Cardinality(Starts("tool_use")) - 1)
    /\ \A i, j \in Idx("content_block_start") : out[i].index = out[j].index => i = j

\* the text block is open just before position i of the output
TextOpenBefore(i) ==
    \E s \in Starts("text") :
        s < i /\ \A j \in StopsOf(0) : ~(s < j /\ j < i)

\* C6: no tool_use block is opened while the text block is open: when a
\* tool call starts with the text block open, content_block_stop for index
\* 0 goes out first.
C6_NoToolStartWhileTextOpen ==
    \A i \in Starts("tool_use") : ~TextOpenBefore(i)

\* CFP mode: the text block was open when the call started, and was closed
\* right before the tool block was opened
C6_Witness ==
    /\ cfp_used
    /\ \E i \in Starts("tool_use") :
          /\ i > 2
          /\ out[i - 1] = BlockStop(0)
          /\ TextOpenBefore(i - 1)

\* ------------------------------------------------------ claims: the parser
\* the events of parse_stream_chunk(S); finalize_stream() on a fresh parser
OneShot(S) ==
    Only({fed.events \o FinalizeStream(fed.parser).events :
            fed \in {ParseStreamChunk(NewParser, S)}})

\* C7: however the input is cut into fragments, the events of feeding the
\* fragments one by one and finalizing are the events of feeding the whole
\* input at once and finalizing.
C7_FragmentationInvariance ==
    ppc = "finalized" => events = OneShot(input)

\* a block of the input was cut inside its tags and inside its payload, and
\* its events came out as for the whole input
C7_Witness ==
    /\ ppc = "finalized"
    /\ input = <<"x">> \o Block("Ca") \o Block("Da")
    /\ Len(events) = 3
    /\ events[1].type = "text" /\ events[2].type = "call_start"
    /\ events[3].type = "args_delta"

EventsOfId(type, id) == {i \in 1..Len(events) : events[i].type = type /\ events[i].id = id}

\* C8: an args_delta or call_complete event for an id comes after a
\* call_start event for that id, and an args_delta or args_complete block
\* whose id is not in active_calls gives no event and changes neither
\* active_calls nor completed_calls.
C8_NoDeltaBeforeStart ==
    /\ \A i \in 1..Len(events) :
          events[i].type \in {"args_delta", "call_complete"}
              => \E j \in 1..(i - 1) :
                    events[j].type = "call_start" /\ events[j].id = events[i].id
    /\ \A tok \in {"Da", "Db", "Ka", "Kb"} :
          ~HasCall(Parser, PayloadDoc(tok).id)
              => \E r \in {ProcessCfpBlock(Parser, PayloadDoc(tok))} :
                    r.event = NoEvent /\ r.parser = Parser

\* the args_delta block fed before the call was dropped, the one fed after
\* it was reported
C8_Witness ==
    /\ ppc = "finalized"
    /\ input = Block("Da") \o Block("Ca") \o Block("Da")
    /\ Len(events) = 2
    /\ events[1].type = "call_start" /\ events[2].type = "args_delta"

\* C9: call_complete is emitted at most once for an id, and once it was
\* emitted the id is no longer in active_calls and is in completed_calls
\* exactly once.
C9_CallCompleteOnce ==
    \A id \in Ids :
        /\ Cardinality(EventsOfId("call_complete", id)) <= 1
        /\ EventsOfId("call_complete", id) # {}
              => /\ ~HasCall(Parser, id)
                 /\ Cardinality({k \in 1..Len(completed_calls) :
                                     completed_calls[k].id = id}) = 1

StartsBlock(buf) ==
    \/ HasAt(buf, CFP_OPEN_PREFIX, 1)
    \/ \E n \in 1..Len(CFP_OPEN_PREFIX) : buf = Slice(CFP_OPEN_PREFIX, 1, n)

\* C10: after every parse_stream_chunk the buffer is empty or starts at an
\* opening tag (or at a part of one): the text before it was emitted, and
\* text without "<cfp" does not stay in the buffer.
C10_BufferHoldsOnlyBlockTail ==
    ppc = "feeding" => (buffer = <<>> \/ StartsBlock(buffer))

\* the text of the events of type "text", in the order they were emitted
TextOfEvents(evs) ==
    Only({Concat([i \in 1..Len(texts) |-> texts[i].data]) :
            texts \in {SelectSeq(evs, LAMBDA e : e.type = "text")}})

\* S with its valid complete blocks taken out, every other character kept
WithoutValidBlocks(S) ==
    Only({Concat([i \in 1..Len(kept) |-> kept[i].content]) \o ex.remaining :
            ex \in {ExtractCompleteCfpBlocks(S)},
            kept \in {SelectSeq(ExtractCompleteCfpBlocks(S).parts,
                                LAMBDA part : part.ptype = "text")}})

\* C11: after the fragments were fed and the stream finalized, the text
\* events put together are the input without its valid blocks, whitespace at
\* the ends of what was left in the buffer included, and the buffer is empty.
C11_TextPreserved ==
    ppc = "finalized" =>
        /\ TextOfEvents(events) = WithoutValidBlocks(input)
        /\ buffer = <<>>

\* C12: a complete run whose payload is no valid block ("V": an object with
\* the wrong version, "J": no JSON) comes out as text that holds the whole
\* run, no other kind of event is emitted, active_calls and completed_calls
\* stay as they were, and a valid block fed next gives its event.
C12_MalformedBlockIsText ==
    \A tok \in {"V", "J"} :
        \E r \in {ParseStreamChunk(Parser, Block(tok))} :
            /\ r.events # <<>>
            /\ \A i \in 1..Len(r.events) : r.events[i].type = "text"
            /\ EndsWith(r.events[Len(r.events)].data, Block(tok))
            /\ r.parser.active_calls = active_calls
            /\ r.parser.completed_calls = completed_calls
            /\ r.parser.buffer = <<>>
            /\ \E n \in {ParseStreamChunk(r.parser, Block("Cb"))} :
                  /\ Len(n.events) = 1
                  /\ n.events[1].type = "call_start" /\ n.events[1].id = "b"

\* a malformed run was fed in pieces, came out as one text event, and the
\* call after it was reported
C12_Witness ==
    /\ ppc = "finalized"
    /\ input = Block("V") \o Block("Ca")
    /\ events = <<TextEvent(Block("V")),
                  [type |-> "call_start", id |-> "a", name |-> "f", data |-> <<>>]>>
    /\ DOMAIN active_calls = {"a"}

\* C13: when a tool_use block was opened and the stream ended on a
\* finish_reason chunk or on the end of the iterator, the stop_reason of
\* message_delta is tool_use, whatever the upstream's finish_reason was.
C13_ToolUseStopReason ==
    (pc = "done" /\ upstream # "raised" /\ Starts("tool_use") # {}) =>
        \A m \in Idx("message_delta") : out[m].kind = "tool_use"

\* C14: when the upstream iterator raises, the output ends with message_delta
\* carrying stop_reason "error" and output_tokens 0, message_stop and [DONE];
\* it is the only message_delta, and the generator is finished.
C14_ErrorTermination ==
    upstream = "raised" =>
        /\ pc = "done"
        /\ Len(out) >= 4
        /\ out[Len(out) - 2] = MessageDelta("error", 0)
        /\ out[Len(out) - 1] = MessageStop
        /\ out[Len(out)] = DoneSentinel
        /\ Idx("message_delta") = {Len(out) - 2}

\* the upstream raised after it had reported usage and after a tool block
\* was opened
C14_Witness ==
    /\ upstream = "raised"
    /\ output_tokens > 0
    /\ Starts("tool_use") # {}
    /\ out[Len(out) - 2] = MessageDelta("error", 0)

\* ----------------------------------------------------- claims: the request
\* the channel the model string of the body names: the text after the first
\* ":" in lower case when it is a configured channel, the default otherwise
ChannelNamed ==
    LET i == Find(body.model, <<":">>, 1)
        c == LowerAll(Slice(body.model, i + 1, Len(body.model)))
    IN  IF i # 0 /\ Len(c) = 1 /\ c[1] \in env.channels THEN c[1] ELSE "default"

\* C15: when the model of the request is L:C and C in lower case is a
\* configured channel, whether L is an alias or not, the upstream request has
\* that channel's base_url and api_key; in every other case the default
\* provider's.
C15_ChannelSelectsProvider ==
    rpc = "adapted" =>
        /\ litellm_request.api_base = ChannelNamed
        /\ litellm_request.api_key = ChannelNamed

\* the logical model of the body: the text before the first ":"
LogicalModel ==
    LET i == Find(body.model, <<":">>, 1)
    IN  IF i = 0 THEN body.model ELSE Slice(body.model, 1, i - 1)

\* C16: when the logical model of the request contains -textonly, -cfp or
\* -text, alias names such as claude-3-haiku-cfp included, the cfp_enabled
\* value create_message reads at its CFP step is true.
C16_CfpFlagEnablesCfp ==
    (rpc = "adapted" /\ HasCfpSuffix(LogicalModel)) => request.cfp_enabled

\* no alias keyword in the model of the body, whatever the case
NoAliasKeyword ==
    /\ ~HasSub(LowerAll(body.model), <<"haiku">>)
    /\ ~HasSub(LowerAll(body.model), <<"sonnet">>)

\* the model of the body with the text of the CFP suffixes taken out and
\* nothing else touched ("only" is in a model string as the end of -textonly
\* and nowhere else)
BodyModelWithoutFlags ==
    SelectSeq(body.model, LAMBDA tok : tok \notin {"-cfp", "-text", "only"})

\* C17: a model string that starts with a provider prefix and contains
\* neither haiku nor sonnet is routed to the same string, changed by nothing
\* but the removal of the CFP suffix substrings.
C17_PrefixedModelKept ==
    (rpc = "validated" /\ HasProviderPrefix(body.model) /\ NoAliasKeyword)
        => request.model = BodyModelWithoutFlags

\* a prefixed model with a flag and a channel has been validated: the flag is
\* gone, the prefix, the name and the channel are there
C17_Witness ==
    /\ rpc = "validated"
    /\ body.model = <<"gemini/", "m", "-text", "only", ":", "chan">>
    /\ request.model = <<"gemini/", "m", ":", "chan">>

\* the prefix of the preferred provider, and a target behind it unless the
\* target has a provider prefix of its own
ExpectedPrefix ==
    CASE env.PREFERRED_PROVIDER \in {"google", "gemini"} -> "gemini/"
      [] env.PREFERRED_PROVIDER = "anthropic" -> "anthropic/"
      [] OTHER -> "openai/"
ExpectedTarget(target) ==
    IF Head(target) \in ProviderPrefixes THEN target ELSE <<ExpectedPrefix>> \o target

\* C18: a model whose name contains haiku or sonnet, in any case, is routed to
\* SMALL_MODEL or BIG_MODEL: as it is when the target has a provider prefix,
\* behind gemini/, anthropic/ or openai/ after PREFERRED_PROVIDER when it has
\* none; a model with no alias and no provider prefix gets that prefix too.
C18_AliasRouting ==
    rpc = "validated" =>
        IF HasSub(LowerAll(body.model), <<"haiku">>)
        THEN request.model = ExpectedTarget(env.SMALL_MODEL)
        ELSE IF HasSub(LowerAll(body.model), <<"sonnet">>)
        THEN request.model = ExpectedTarget(env.BIG_MODEL)
        ELSE ~HasProviderPrefix(body.model)
                => request.model = <<ExpectedPrefix>> \o BodyModelWithoutFlags

\* C19: when the upstream model begins with openai/, every message of the
\* translated request has a plain string as content and the string is not
\* empty: a list is flattened to text, and empty content (an empty list,
\* None, the empty string) is replaced by "...".
C19_OpenAiContentIsNonEmptyString ==
    (rpc = "translated" /\ HasAt(litellm_request.model, <<"openai/">>, 1)) =>
        \A i \in 1..Len(litellm_request.messages) :
            /\ litellm_request.messages[i].content.kind = "str"
            /\ litellm_request.messages[i].content.text # <<>>

\* the request dicts adapt_request_for_cfp is looked at with: the translated
\* request, the same with an empty list of tools, the same with no tools key
AdaptInputs ==
    {litellm_request,
     [litellm_request EXCEPT !.has_tools = TRUE, !.tools = <<>>],
     [litellm_request EXCEPT !.has_tools = FALSE, !.tools = <<>>]}

\* the messages are the CFP rewriting of those of req: one system message
\* first, with the tools and the guide at its end, then the messages of req
\* that are not system messages, as they were
IsCfpRewriting(messages, req) ==
    /\ messages # <<>>
    /\ messages[1].role = "system"
    /\ EndsWith(messages[1].content.text, <<"TOOLS", Ws, Ws, "GUIDE">>)
    /\ Tail(messages) = SelectSeq(req.messages, LAMBDA m : m.role # "system")

\* C20: adapt_request_for_cfp rewrites the request exactly when cfp_enabled is
\* true and tools is not empty: then the result has the CFP messages, no tools
\* key and tool_choice null, and the dict passed in is as it was; in every
\* other case the request comes back unchanged and cfp_used is false.
C20_AdaptExactlyWhenEnabledWithTools ==
    /\ rpc = "translated" =>
         \A cfp_enabled \in BOOLEAN : \A req \in AdaptInputs :
            \A r \in {AdaptRequestForCfp(req, cfp_enabled)} :
                /\ r.req = req
                /\ IF cfp_enabled /\ req.has_tools /\ req.tools # <<>>
                   THEN /\ r.cfp_used
                        /\ IsCfpRewriting(r.new_req.messages, req)
                        /\ ~r.new_req.has_tools
                        /\ r.new_req.has_tool_choice
                        /\ r.new_req.tool_choice = "None"
                   ELSE /\ ~r.cfp_used
                        /\ r.new_req = req
    /\ rpc = "adapted" =>
         /\ adapted.req = adapted.before
         /\ adapted.cfp_used = (request.cfp_enabled /\ adapted.before.tools # <<>>)

\* create_message has adapted a request with tools: cfp_used is set, the dict
\* it sends has no tools and a null tool_choice, the dict it passed in still
\* has its tools
C20_Witness ==
    /\ rpc = "adapted"
    /\ adapted.cfp_used
    /\ adapted.req = adapted.before
    /\ adapted.req.has_tools
    /\ ~litellm_request.has_tools
    /\ litellm_request.tool_choice = "None"
    /\ IsCfpRewriting(litellm_request.messages, adapted.before)

\* ---------------------------------------------- claims: the unary response
\* C21: in the unary path, when the CFP post-processing of the upstream
\* content gives at least one completed tool call, the Anthropic response
\* has stop_reason tool_use.
C21_CfpCallsGiveToolUse ==
    (upc = "converted" /\ cfp_used /\ CfpResponseCalls(completion.content) # <<>>)
        => anthropic_response.stop_reason = "tool_use"

\* the tool_use blocks of the Anthropic response, in their order
ToolUseBlocks == SelectSeq(anthropic_response.content, LAMBDA b : b.type = "tool_use")

\* C22: in the unary path, whatever the upstream model, every tool call of
\* the upstream response is exactly one tool_use block of the content list,
\* its input the value parsed from the arguments, or {raw: arguments} when the
\* arguments are no valid JSON.
C22_ToolCallsBecomeToolUse ==
    upc = "converted" =>
        /\ Len(ToolUseBlocks) = Len(litellm_response.tool_calls)
        /\ \A i \in 1..Len(ToolUseBlocks) :
            \E tc \in {litellm_response.tool_calls[i]} :
                /\ ToolUseBlocks[i].id = tc.id
                /\ ToolUseBlocks[i].name = tc.name
                /\ ToolUseBlocks[i].input =
                     IF tc.arguments \in {<<"o">>, <<"O">>, <<"e">>}
                     THEN [kind |-> "json", value |-> ArgsReserialize(tc.arguments)]
                     ELSE [kind |-> "raw", value |-> tc.arguments]

\* C33: in the unary path, when translating the upstream response into the
\* Anthropic response fails, the client gets an HTTP 500 error and no
\* Messages response.
C33_TranslationFailureIs500 ==
    (upc = "converted"
        /\ \E i \in 1..Len(litellm_response.tool_calls) :
              /\ litellm_response.from_cfp \/ IsClaudeModel(request.model)
              /\ litellm_response.tool_calls[i].arguments = <<"n">>)
        => anthropic_response.status_code = 500

\* the events the parser gives for the whole content: one parse_stream_chunk,
\* then finalize_stream
EventsOfContent(content) ==
    Only({Only({fed.events \o fin.events : fin \in {FinalizeStream(fed.parser)}}) :
            fed \in {ParseStreamChunk(NewParser, content)}})

C38_ToolUseIffToolBlock ==
    upc = "converted" =>
        ((anthropic_response.stop_reason = "tool_use") <=> (ToolUseBlocks # <<>>))

\* ------------------------------------------------------- claims: the codec
\* C23: for any valid role, id and fields, parse_block applied to the first
\* block extract_blocks returns for encode(role, id, fields) is the object
\* {v: 1, role, id, ...fields}.
C23_CodecRoundTrip == cpc = "parsed" => parsed = doc

\* C24: every block the encoder produces starts with the literal <cfp>,
\* followed at once by the compact JSON payload, and ends with </cfp>.
C24_EncodedBlockHasPlainTags ==
    cpc # "called" /\ cpc # "idle" => encoded = TAG_OPEN \o JsonDumps(doc) \o TAG_CLOSE

\* ----------------------------------------- claims: the parser, its calls
\* C26: for one call id the parser emits no args_delta event after the
\* call_complete event of that id: an args_delta block that is fed after the
\* args_complete block of the same id gives no event.
C26_NoDeltaAfterComplete ==
    \A i \in 1..Len(events) : \A j \in (i + 1)..Len(events) :
        (events[i].type = "call_complete" /\ events[j].type = "args_delta")
            => events[j].id # events[i].id

\* the argument strings that are the serialization of a JSON object
ObjectSerializations == {<<"o">>, <<"O">>, <<"e">>}

\* C29: the full_args of every call_complete event is the serialization of a
\* JSON object: {} when the accumulated arguments are empty, are no valid
\* JSON, or are valid JSON that is no object.
C29_FullArgsIsObject ==
    /\ \A i \in 1..Len(events) :
          events[i].type = "call_complete" => events[i].data \in ObjectSerializations
    /\ \A tok \in {"Da", "Na"} :
          \E r \in {ParseStreamChunk(Parser, Block(tok) \o Block("Ka"))} :
              \A i \in 1..Len(r.events) :
                  r.events[i].type = "call_complete"
                      => r.events[i].data \in ObjectSerializations

\* C30: what the parser does with a call block does not depend on the args
\* field of the block: with args that are not empty, with empty args and with
\* no args field the same call_start event is emitted and the accumulator of
\* the call starts empty.
C30_CallArgsIgnored ==
    buffer = <<>> =>
        \E plain \in {ParseStreamChunk(Parser, Block("Ca"))} :
            \A tok \in {"Aa", "Xa"} :
                \E r \in {ParseStreamChunk(Parser, Block(tok))} :
                    /\ r.events = plain.events
                    /\ r.parser = plain.parser

\* ------------------------- claims: the streaming response in CFP mode
\* how often the token tok occurs in the sequence s
RECURSIVE Count(_, _)
Count(s, tok) ==
    IF s = <<>> THEN 0
    ELSE (IF Head(s) = tok THEN 1 ELSE 0) + Count(Tail(s), tok)

\* the text of the text_delta items among the first n items of the output
RECURSIVE TextDeltasUpTo(_)
TextDeltasUpTo(n) ==
    IF n = 0 THEN <<>>
    ELSE TextDeltasUpTo(n - 1)
            \o (IF out[n].type = "content_block_delta" /\ out[n].kind = "text_delta"
                THEN out[n].data ELSE <<>>)

TextBeforeMessageDelta ==
    TextDeltasUpTo(IF Idx("message_delta") = {} THEN Len(out)
                   ELSE Min(Idx("message_delta")) - 1)

\* C28: in CFP mode every text event of the parser that is not empty reaches
\* the client as a text_delta, also after a CFP call has started, and when
\* the stream has terminated all text of the upstream was sent as text_delta
\* before message_delta.
C28_CfpTextReachesClient ==
    /\ (pc = "streaming" /\ cfp_used) =>
          \A c \in {Block("R"), <<"x">> \o Block("R")} :
              \E r \in {ParseStreamChunk(Parser, c)},
                 st \in {ProcessChunk(Handler, Chunk(c, <<>>, "None"))} :
                  \A j \in 1..Len(r.events) :
                      (r.events[j].type = "text" /\ r.events[j].data # <<>>)
                          => \E i \in (Len(out) + 1)..Len(st.out) :
                                st.out[i] = TextDelta(r.events[j].data)
    /\ (pc = "done" /\ cfp_used /\ upstream # "raised") =>
          Count(TextBeforeMessageDelta, "x") >= Count(accumulated_text, "x")

\* what of the block of payload tok is still to come when the parser buffer
\* holds the beginning of it
Rest(tok) == Slice(Block(tok), Len(buffer) + 1, Len(Block(tok)))

BufferBegins(tok) ==
    Len(buffer) < Len(Block(tok)) /\ buffer = Slice(Block(tok), 1, Len(buffer))

\* what the chunk that completes the block of payload tok adds to the output
Emitted(tok) ==
    Only({Slice(st.out, Len(out) + 1, Len(st.out)) :
            st \in {ProcessChunk(Handler, Chunk(Rest(tok), <<>>, "None"))}})

\* the entry handle_streaming holds for the call id of payload tok
Recorded(tok) ==
    {cfp_active_calls[k] : k \in {i \in 1..Len(cfp_active_calls) :
                                    cfp_active_calls[i].call_id = PayloadDoc(tok).id}}

\* C27: in CFP mode, for blocks of distinct call ids in any interleaving, the
\* chunk that completes a call block opens a tool_use block at index
\* n + (1 if the text block was opened, else 0), n being the number of CFP
\* calls opened before; the chunk that completes an args_delta block of a
\* call with an open block gives an input_json_delta at the index recorded
\* for its id, and the chunk that completes its args_complete block gives
\* content_block_stop at that index; the recorded index is the index the
\* block of that call was opened with.  The items are in the output when
\* the chunk has been processed, before the next chunk is read.
C27_CfpBlockIndices ==
    (pc = "streaming" /\ cfp_used) =>
        /\ \A tok \in {"Ca", "Cb"} :
              BufferBegins(tok) =>
                  \E n \in {Cardinality(Starts("tool_use"))},
                     off \in {IF Starts("text") = {} THEN 0 ELSE 1},
                     closing \in {IF text_block_started /\ ~text_block_closed
                                  THEN <<BlockStop(0)>> ELSE <<>>} :
                      Emitted(tok) = closing \o
                          <<ToolBlockStart(n + off, "toolu", PayloadDoc(tok).name)>>
        /\ \A tok \in {"Da", "Db"} :
              (BufferBegins(tok) /\ Recorded(tok) # {}) =>
                  \A rec \in Recorded(tok) :
                      Emitted(tok) = <<InputJsonDelta(rec.index, PayloadDoc(tok).delta)>>
        /\ \A tok \in {"Ka", "Kb"} :
              (BufferBegins(tok) /\ Recorded(tok) # {}) =>
                  \A rec \in Recorded(tok) : Emitted(tok) = <<BlockStop(rec.index)>>
        /\ \A k \in 1..Len(cfp_active_calls) :
              \E i \in Starts("tool_use") :
                  /\ out[i].index = cfp_active_calls[k].index
                  /\ out[i].name = cfp_active_calls[k].name

\* the calls of ids a and b were interleaved behind a text: the blocks are
\* opened at 1 and 2, and the delta of the first call goes to index 1
C27_Witness ==
    /\ cfp_used
    /\ \E i, j, k \in 1..Len(out) :
          /\ i < j /\ j < k
          /\ out[i] = ToolBlockStart(1, "toolu", "f")
          /\ out[j] = ToolBlockStart(2, "toolu", "g")
          /\ out[k] = InputJsonDelta(1, <<"o">>)

\* ------------------------------------------------ claims: two responses
\* what handle_streaming has yielded when it ran alone on the chunks of
\* history, the upstream ending where history says so
RECURSIVE Alone(_, _)
Alone(st0, history) ==
    IF history = <<>> THEN st0
    ELSE Only({Alone(st, Tail(history)) :
                 st \in {IF Head(history) = EndOfStream THEN InterruptPath(st0)
                         ELSE ProcessChunk(st0, Head(history))}})

\* C25: two requests streamed at once share no state: however the
\* processing of their chunks is interleaved, what each request has sent is
\* what it sends for the same chunks when it runs alone.
C25_ConcurrentStreamsIndependent ==
    \A r \in DOMAIN streams :
        streams[r].pc # "start" =>
            streams[r].out =
                Alone(Yield([NewLocals(streams[r].cfp_used) EXCEPT !.pc = "streaming"],
                            MessageStart),
                      consumed[r]).out

\* request 1 has opened the tool block of a call whose block came in two
\* chunks while request 2 was in the middle of a block of its own
C25_Witness ==
    /\ DOMAIN streams = Requests
    /\ consumed[1] = <<Chunk(Slice(Block("Ca"), 1, 3), <<>>, "None"),
                       Chunk(Slice(Block("Ca"), 4, Len(Block("Ca"))), <<>>, "None")>>
    /\ streams[1].out[Len(streams[1].out)] = ToolBlockStart(0, "toolu", "f")
    /\ streams[2].pc = "streaming"
    /\ heap[streams[2].parser].buffer = Slice(Block("Ca"), 1, 3)

\* ------------------------------------------- claims: the parser, errors
\* the text an error block is to be reported with starts with "[CFP error] "
ErrorTextPrefix == "[CFP error] "

\* C31: a valid block with role error makes the parser emit one text event
\* whose content is "[CFP error] " and then the message of the error, and
\* leaves active_calls and completed_calls as they are.
C31_ErrorBlockIsText ==
    buffer = <<>> =>
        \E r \in {ParseStreamChunk(Parser, Block("E"))} :
            /\ Len(r.events) = 1
            /\ r.events[1].type = "text"
            /\ r.events[1].data # <<>>
            /\ r.events[1].data[1] = ErrorTextPrefix
            /\ r.parser = Parser

\* ----------------------------- claims: the streaming response, its end
\* where in the output the tool_use block with this index was opened last,
\* 0 if no tool_use block has the index
OpenedAt(index) ==
    Only({IF c = {} THEN 0 ELSE CHOOSE m \in c : \A n \in c : n <= m :
            c \in {{i \in Starts("tool_use") : out[i].index = index}}})

\* what the chunk with the finish_reason adds to the output
Closing ==
    Only({Slice(st.out, Len(out) + 1, Len(st.out)) :
            st \in {ProcessChunk(Handler, Chunk(<<>>, <<>>, "stop"))}})

\* C32: when the stream terminates with several tool_use blocks open, their
\* content_block_stop items go out in reverse order of opening: the block
\* opened last is closed first.
C32_ClosedInReverseOrder ==
    pc = "streaming" =>
        \E closing \in {Closing} :
            \A a, b \in 1..Len(closing) :
                (/\ a < b
                 /\ closing[a].type = "content_block_stop"
                 /\ closing[b].type = "content_block_stop"
                 /\ closing[a].index # closing[b].index
                 /\ OpenedAt(closing[a].index) # 0
                 /\ OpenedAt(closing[b].index) # 0)
                    => OpenedAt(closing[a].index) > OpenedAt(closing[b].index)

\* ------------------------------------------------------ claims: the tools
\* The schema a tool is to have for a gemini/ upstream: in every schema node
\* the keywords additionalProperties and default are gone, and format is gone
\* from a string node unless it is enum or date-time; the schemas under
\* properties, items and anyOf are treated alike, and everything else (the
\* names of the properties among it) is as it was.
RECURSIVE SanitizedSchema(_)
SanitizedSchema(node) ==
    IF node.t # "dict" THEN node
    ELSE Only({JDict([i \in 1..Len(kept) |->
                 Entry(kept[i].k,
                       CASE kept[i].k = "properties" ->
                              JDict([j \in 1..Len(kept[i].v.v) |->
                                       Entry(kept[i].v.v[j].k,
                                             SanitizedSchema(kept[i].v.v[j].v))])
                         [] kept[i].k = "items" -> SanitizedSchema(kept[i].v)
                         [] kept[i].k = "anyOf" ->
                              JList([j \in 1..Len(kept[i].v.v) |->
                                       SanitizedSchema(kept[i].v.v[j])])
                         [] OTHER -> kept[i].v)]) :
            kept \in {SelectSeq(node.v, LAMBDA e :
                        /\ e.k \notin {"additionalProperties", "default"}
                        /\ ~(/\ e.k = "format"
                             /\ HasKey(node.v, "type")
                             /\ GetKey(node.v, "type") = JStr("string")
                             /\ e.v \notin {JStr("enum"), JStr("date-time")}))}})

\* C35: for a gemini/ upstream the parameters of a tool are its schema
\* without additionalProperties and default at any depth and without format
\* on a string node (unless enum or date-time); every other keyword, and
\* every property, is kept.
C35_GeminiSchemaSanitized ==
    (tpc = "converted" /\ HasAt(request.model, <<"gemini/">>, 1))
        => parameters = SanitizedSchema(input_schema)

\* ------------------ claims: the streaming response in CFP mode, its text
\* C36: in CFP mode nothing of the upstream's output is sent twice: the
\* text_delta items together hold every piece of upstream text at most once,
\* and the result of a result block at most once; what was sent while
\* streaming is not sent again when the stream ends.
C36_NoTextTwice ==
    cfp_used =>
        \E sent \in {TextDeltasUpTo(Len(out))} :
            /\ Count(sent, "x") <= Count(accumulated_text, "x")
            /\ Count(sent, "resultjson") <= Count(accumulated_text, "R")

\* C37: a second call block for an id whose call is still active starts no
\* second call: the parser keeps the arguments it has accumulated for the id
\* and emits no call_start, and the translator opens no second tool_use
\* block and keeps the index it has recorded for the id.
C37_ActiveIdNotRestarted ==
    (/\ pc = "streaming"
     /\ cfp_used
     /\ buffer = <<>>
     /\ HasCall(Parser, "a")
     /\ ~active_calls["a"].complete
     /\ KeyPos(cfp_active_calls, "a", "call_id") # 0) =>
        \E st \in {ProcessChunk(Handler, Chunk(Block("Ca"), <<>>, "None"))} :
            /\ st.parser.active_calls = active_calls
            /\ st.cfp_active_calls = cfp_active_calls
            /\ \A i \in (Len(out) + 1)..Len(st.out) :
                  st.out[i].type # "content_block_start"

\* ------------------------------ claims: a function call written and read
\* a JSON object as the arguments of a function call
ArgsIsObject(s) == ArgsJsonValid(s) /\ s # <<"n">>

\* C39: the text build_cfp_messages writes for an assistant function call,
\* fed whole to a fresh parser in fragments of any length, has given exactly
\* call_start with the name, args_delta with the arguments and call_complete,
\* all three for the id of the call; and when the arguments are a JSON
\* object the completed call has the same arguments as JSON.
C39_FunctionCallReadBack ==
    (function_call # NoFunctionCall /\ ppc # "building" /\ pos = Len(input)) =>
        /\ Len(events) = 3
        /\ events[1] = [type |-> "call_start", id |-> call_id,
                        name |-> function_call.name, data |-> <<>>]
        /\ events[2] = [type |-> "args_delta", id |-> call_id, name |-> "",
                        data |-> function_call.arguments]
        /\ events[3].type = "call_complete"
        /\ events[3].id = call_id
        /\ ArgsIsObject(function_call.arguments) =>
              \E calls \in {GetCompletedToolCalls(Parser)} :
                  /\ Len(calls) = 1
                  /\ calls[1].name = function_call.name
                  /\ calls[1].arguments = ArgsReserialize(function_call.arguments)

====
